---- MODULE Spec2Model ----
(***************************************************************************)
(* Ad delivery simulator: the campaign real-time state store (Redis        *)
(* client), the campaign service, its budget commit and frequency capping, *)
(* the auction engine, the tracking service and the daily reset task.      *)
(*                                                                         *)
(* Money is an integer number of units; Penny units make 0.01.  The        *)
(* program's float arithmetic is exact on the values used here (base bids  *)
(* are whole pennies, so x1.2, x1.1 and x0.8 stay integral in units).  The *)
(* campaigns table keeps budgets and spend as DECIMAL(10,2) and the bid    *)
(* amount as DECIMAL(10,4): what is stored is rounded to that scale.       *)
(*                                                                         *)
(* Each specification below runs one part of the service and leaves the    *)
(* variables of the other parts at rest.                                   *)
(***************************************************************************)
EXTENDS Integers, Sequences, FiniteSets, TLC

VARIABLES
    \* ---- Fast-Store budget keys and the durable campaigns table
    budgetDaily,    \* campaign:budget:daily:{id}  (key with a 24 h TTL)
    budgetTotal,    \* campaign:budget:total:{id}
    rows,           \* durable campaigns table, one row per campaign
    dbPending,      \* updateSpentInDB goroutines spawned and not yet run
    setter,         \* a SetCampaignBudget pipeline in flight
    lastDebit,      \* the last CheckAndDecrementBudget call and its answer
    hist            \* history: the last completed SetBudgets and the debits since

budgetVars == <<budgetDaily, budgetTotal, rows, dbPending, setter, lastDebit, hist>>

VARIABLES
    \* ---- frequency counters of one user
    now,            \* the clock, in ticks
    freqKey,        \* freq:{event}:{campaign}:{user}
    freqPipe,       \* an IncrementFrequencyCap pipeline in flight
    served,         \* history: when an auction passed the impression cap check
    expired         \* history: how many times each counter's key has expired

freqVars == <<now, freqKey, freqPipe, served, expired>>

VARIABLES
    \* ---- one run of Engine.RunAuction
    request,        \* the bid request
    wall,           \* time.Now() as the auction sees it: weekday, hour, minute
    apc,            \* where RunAuction is
    deadlineFired,  \* auctionCtx is done (100 ms after the start)
    task,           \* where each campaign's eligibility goroutine is
    bidChan,        \* the entries sent on bidChan, in arrival order
    ranked,         \* the entries as sort.Slice left them
    secondPrice,    \* selectWinner's second result
    finalPrice,     \* determineFinalPrice's result
    outcome,        \* what RunAuction returned: "bid", "nobid" or "error"
    topics          \* the topics published to, in order

auctionVars == <<request, wall, apc, deadlineFired, task, bidChan, ranked,
                 secondPrice, finalPrice, outcome, topics>>

VARIABLES
    \* ---- the tracking service and the process around it
    call,           \* the Track call in progress (or the last one)
    nextId,         \* ids given to events so far, plus one
    eventBuffer,    \* Service.eventBuffer, the buffered channel
    bufferClosed,   \* close(s.eventBuffer) has run
    batch,          \* batchProcessor's pending batch
    batchPc,        \* batchProcessor: "running", "exited" or "panicked"
    workersRunning, \* processEventWorker goroutines that have not returned
    persisted,      \* ids of the rows of tracking_events
    metrics,        \* metrics:{kind}:{campaign}:{day} and :{day}:{hour}
    accepted,       \* history: ids of the events whose Track call returned nil
    mainPc,         \* main: "serving", "waiting", "stopped", "cancelled", "exited"
    ctxCancelled    \* main's cancel() has run

trackVars == <<call, nextId, eventBuffer, bufferClosed, batch, batchPc, workersRunning,
               persisted, metrics, accepted, mainPc, ctxCancelled>>

VARIABLES
    \* ---- the campaign service's calls (Create, Get, Update, ResetDailyBudgets)
    created,        \* ids of the rows the campaigns table holds
    op,             \* the service call in progress (or the last one)
    updates,        \* what publishCampaignUpdate sent to campaign-updates, in order
    got,            \* what the last GetCampaign returned
    debited         \* history: the sum of the debits committed on each campaign

campaignVars == <<created, op, updates, got, debited>>

VARIABLES
    \* ---- the daily reset goroutine of the process
    hours,          \* the time, in hours since a UTC midnight
    startedAt,      \* the time the process started
    schedPc,        \* startDailyBudgetResetScheduler: "start", "sleeping", "looping", "exited"
    tickerNext,     \* when the 24 h ticker sends next
    tickerC,        \* ticker.C, a channel of capacity one, holds a tick
    wakeAt,         \* nextReset, the time the goroutine sleeps until
    resetsAt        \* history: the time of each ResetDailyBudgets, in order

schedVars == <<hours, startedAt, schedPc, tickerNext, tickerC, wakeAt, resetsAt>>

VARIABLES
    \* ---- the metric counters and the callers of IncrementMetric
    today,          \* the date, in days
    dayKeys,        \* metrics:{kind}:{campaign}:{date}
    hourKeys,       \* metrics:{kind}:{campaign}:{date}:{hour}
    mcall,          \* each caller's IncrementMetric call: where it is, and its keys
    succeeded       \* history: the calls per day key that returned nil

metricVars == <<today, dayKeys, hourKeys, mcall, succeeded>>

VARIABLES
    \* ---- concurrent callers of CheckAndDecrementBudget on one campaign
    racers          \* each caller: where it is, its amount and the answer it got

raceVars == <<racers>>

VARIABLES
    \* ---- kafka.Producer and the goroutines that publish through it
    writers,        \* Producer.writers: topic -> the writer stored for it (0: no entry)
    pubs,           \* each publishing goroutine: where it is in GetWriter, topic, writer
    producer        \* writers created per topic; history: a racing map access, a fatal error

kafkaVars == <<writers, pubs, producer>>

vars == <<budgetVars, freqVars, auctionVars, trackVars, campaignVars, schedVars, metricVars,
          raceVars, kafkaVars>>

\* what an action of one part leaves alone
exceptBudget   == <<freqVars, auctionVars, trackVars, campaignVars, schedVars, metricVars, raceVars, kafkaVars>>
exceptFreq     == <<budgetVars, auctionVars, trackVars, campaignVars, schedVars, metricVars, raceVars, kafkaVars>>
exceptAuction  == <<budgetVars, freqVars, trackVars, campaignVars, schedVars, metricVars, raceVars, kafkaVars>>
exceptTrack    == <<budgetVars, freqVars, auctionVars, campaignVars, schedVars, metricVars, raceVars, kafkaVars>>
exceptCampaign == <<freqVars, auctionVars, trackVars, schedVars, metricVars, raceVars, kafkaVars>>
exceptMetric   == <<budgetVars, freqVars, auctionVars, trackVars, campaignVars, schedVars, raceVars, kafkaVars>>
exceptSched    == <<budgetVars, freqVars, auctionVars, trackVars, campaignVars, metricVars, raceVars, kafkaVars>>

(***************************************************************************)
(* Bounds of the model                                                     *)
(***************************************************************************)
MaxBudget  == 2     \* SetBudgets arguments range over 0..MaxBudget pennies
MaxAmount  == 1     \* debit amounts range over 0..MaxAmount pennies
MaxSpent   == 2     \* cap, in pennies, on the amount committed (spend is unbounded)
MaxPending == 1     \* cap on the updateSpentInDB goroutines not yet run
MaxTime    == 3     \* the clock runs over 0..MaxTime
MaxCap     == 2     \* frequency caps range over 0..MaxCap
MaxWindow  == 2     \* rule windows range over 1..MaxWindow ticks
MaxServed  == 2     \* cap on the recorded cap-check passes and on a counter

Penny == 1000       \* 0.01 in money units

Campaigns  == {"c1", "c2"}
Amounts    == {a * Penny : a \in 0..MaxAmount}
Budgets    == {b * Penny : b \in 0..MaxBudget}
EventTypes == {"impression", "click"}

(***************************************************************************)
(* models.Campaign: a row of the campaigns table                           *)
(***************************************************************************)
NoRule == [present |-> FALSE, ImpressionCap |-> 0, ClickCap |-> 0, TimeWindow |-> 0]
Rules  == {NoRule} \cup
          [present : {TRUE}, ImpressionCap : 0..MaxCap, ClickCap : 0..MaxCap,
           TimeWindow : 1..MaxWindow]

NoTargeting == [present |-> FALSE, GeoTargeting |-> {}, DeviceTypes |-> {}, DayParting |-> {}]

NoDate == [present |-> FALSE, val |-> 0]

\* what CreateCampaign writes for a campaign with nothing but its budgets given
BlankRow == [Status |-> "draft", BudgetDaily |-> 0, BudgetTotal |-> 0,
             SpentDaily |-> 0, SpentTotal |-> 0, BidType |-> "CPM", BidAmount |-> 0,
             TargetingRules |-> NoTargeting, FrequencyCapping |-> NoRule,
             StartDate |-> 0, EndDate |-> NoDate]

(***************************************************************************)
(* What a NUMERIC column keeps of a value: PostgreSQL rounds to the        *)
(* column's scale, ties away from zero.                                    *)
(***************************************************************************)
Round(x, unit) ==
    IF x >= 0 THEN ((x + unit \div 2) \div unit) * unit
    ELSE -(((-x + unit \div 2) \div unit) * unit)

Numeric2(x) == Round(x, Penny)              \* DECIMAL(10,2)
Numeric4(x) == Round(x, Penny \div 100)     \* DECIMAL(10,4)

(***************************************************************************)
(* Fast-Store keys: a key is absent or holds a number                      *)
(***************************************************************************)
Absent == [present |-> FALSE, val |-> 0]
Key(v) == [present |-> TRUE, val |-> v]

\* two variants of the script: one without the check of the total, one that
\* decrements the daily counter only
DecrementBudgetNoTotalCheck(daily, total, amount) ==
    IF ~daily.present \/ ~total.present THEN
        [allowed |-> FALSE, daily |-> daily, total |-> total]
    ELSE IF daily.val < amount THEN
        [allowed |-> FALSE, daily |-> daily, total |-> total]
    ELSE
        [allowed |-> TRUE, daily |-> Key(daily.val - amount), total |-> Key(total.val - amount)]

DecrementBudgetDailyOnly(daily, total, amount) ==
    IF ~daily.present \/ ~total.present THEN
        [allowed |-> FALSE, daily |-> daily, total |-> total]
    ELSE IF daily.val < amount \/ total.val < amount THEN
        [allowed |-> FALSE, daily |-> daily, total |-> total]
    ELSE
        [allowed |-> TRUE, daily |-> Key(daily.val - amount), total |-> total]

\* a variant that wants more than the amount on the daily counter
DecrementBudgetStrict(daily, total, amount) ==
    IF ~daily.present \/ ~total.present THEN
        [allowed |-> FALSE, daily |-> daily, total |-> total]
    ELSE IF daily.val <= amount \/ total.val < amount THEN
        [allowed |-> FALSE, daily |-> daily, total |-> total]
    ELSE
        [allowed |-> TRUE, daily |-> Key(daily.val - amount), total |-> Key(total.val - amount)]

\* a variant that takes the amount off the daily counter before it checks
DecrementBudgetDebitsFirst(daily, total, amount) ==
    IF ~daily.present \/ ~total.present THEN
        [allowed |-> FALSE, daily |-> daily, total |-> total]
    ELSE IF daily.val < amount \/ total.val < amount THEN
        [allowed |-> FALSE, daily |-> Key(daily.val - amount), total |-> total]
    ELSE
        [allowed |-> TRUE, daily |-> Key(daily.val - amount), total |-> Key(total.val - amount)]

\* a variant that reads a missing key as a counter of zero
DecrementBudgetMissingAsZero(daily, total, amount) ==
    IF daily.val < amount \/ total.val < amount THEN
        [allowed |-> FALSE, daily |-> daily, total |-> total]
    ELSE
        [allowed |-> TRUE, daily |-> Key(daily.val - amount), total |-> Key(total.val - amount)]

\* Client.DecrementBudget: the Lua script, run by Redis as one step.
\*   get both keys; a missing key -> 0; either below amount -> 0;
\*   otherwise incrbyfloat both by -amount -> 1
DecrementBudget(daily, total, amount) ==
    IF ~daily.present \/ ~total.present THEN
        [allowed |-> FALSE, daily |-> daily, total |-> total]
    ELSE IF daily.val < amount \/ total.val < amount THEN
        [allowed |-> FALSE, daily |-> daily, total |-> total]
    ELSE
        [allowed |-> TRUE, daily |-> Key(daily.val - amount), total |-> Key(total.val - amount)]

\* a sequence without its i-th element
RemoveAt(seq, i) == [j \in 1..(Len(seq) - 1) |-> IF j < i THEN seq[j] ELSE seq[j + 1]]

RECURSIVE SumSeq(_)
SumSeq(seq) == IF seq = <<>> THEN 0 ELSE Head(seq) + SumSeq(Tail(seq))

\* the durable total spend of c and the updates of it not yet run
Committed(c) == rows[c].SpentTotal + SumSeq(dbPending[c])

NoHist     == [set |-> FALSE, daily |-> 0, total |-> 0, baseDaily |-> 0, debited |-> 0]
IdleSetter == [pc |-> "idle", c |-> "c1", daily |-> 0, total |-> 0]
NoDebit    == [c |-> "c1", amount |-> 0, allowed |-> FALSE, turn |-> 0]

\* the budget store before any campaign has been given budgets
BudgetAtRest ==
    /\ budgetDaily = [c \in Campaigns |-> Absent]
    /\ budgetTotal = [c \in Campaigns |-> Absent]
    /\ rows = [c \in Campaigns |-> BlankRow]
    /\ dbPending = [c \in Campaigns |-> <<>>]
    /\ setter = IdleSetter
    /\ lastDebit = NoDebit
    /\ hist = [c \in Campaigns |-> NoHist]

(***************************************************************************)
(* Client.SetCampaignBudget: a pipeline (not a transaction) of two SETs.   *)
(* Redis runs the two commands in order; commands of other connections may *)
(* run between them.                                                       *)
(***************************************************************************)
SetDailyKey(c, daily, total) ==
    /\ setter.pc = "idle"
    /\ budgetDaily' = [budgetDaily EXCEPT ![c] = Key(daily)]
    /\ setter' = [pc |-> "daily_set", c |-> c, daily |-> daily, total |-> total]
    /\ UNCHANGED <<budgetTotal, rows, dbPending, lastDebit, hist>>

SetTotalKey ==
    /\ setter.pc = "daily_set"
    /\ budgetTotal' = [budgetTotal EXCEPT ![setter.c] = Key(setter.total)]
    /\ hist' = [hist EXCEPT ![setter.c] =
                  [set |-> TRUE, daily |-> setter.daily, total |-> setter.total,
                   baseDaily |-> budgetDaily[setter.c].val, debited |-> 0]]
    /\ setter' = IdleSetter
    /\ UNCHANGED <<budgetDaily, rows, dbPending, lastDebit>>

\* a caller of SetCampaignBudget with some budgets
PipeSetDaily(c, daily, total) == SetDailyKey(c, daily, total) /\ UNCHANGED exceptBudget

PipeSetTotal == SetTotalKey /\ UNCHANGED exceptBudget

\* the daily key was SET with a 24 h expiry: Redis drops it when that runs out
ExpireDailyKey(c) ==
    /\ budgetDaily[c].present
    /\ budgetDaily' = [budgetDaily EXCEPT ![c] = Absent]
    /\ UNCHANGED <<budgetTotal, rows, dbPending, setter, lastDebit, hist>>
    /\ UNCHANGED exceptBudget

(***************************************************************************)
(* Service.CheckAndDecrementBudget: the script (one Redis step), then on   *)
(* success `go updateSpentInDB`.  lastDebit records the call and its       *)
(* answer; turn flips on every call.                                       *)
(***************************************************************************)
CheckAndDecrementBudget(c, amount) ==
    LET r == DecrementBudget(budgetDaily[c], budgetTotal[c], amount) IN
    /\ budgetDaily' = [budgetDaily EXCEPT ![c] = r.daily]
    /\ budgetTotal' = [budgetTotal EXCEPT ![c] = r.total]
    /\ lastDebit' = [c |-> c, amount |-> amount, allowed |-> r.allowed,
                     turn |-> 1 - lastDebit.turn]
    /\ hist' = [hist EXCEPT ![c].debited = @ + (IF r.allowed THEN amount ELSE 0)]
    /\ dbPending' = IF r.allowed THEN [dbPending EXCEPT ![c] = Append(@, amount)]
                    ELSE dbPending
    /\ UNCHANGED <<rows, setter>>

\* a caller of CheckAndDecrementBudget with some amount.  The model's cap on
\* spend: a debit that would commit beyond it is not issued.
TryDebit(c, amount) ==
    /\ DecrementBudget(budgetDaily[c], budgetTotal[c], amount).allowed =>
           /\ Committed(c) + amount <= MaxSpent * Penny
           /\ Len(dbPending[c]) < MaxPending
    /\ CheckAndDecrementBudget(c, amount)
    /\ UNCHANGED exceptBudget

\* Service.updateSpentInDB: UPDATE campaigns SET spent_daily += $2, spent_total += $2.
\* Both columns are DECIMAL(10,2): the sums are stored rounded to the penny.
UpdateSpentInDB(c, i) ==
    /\ i \in 1..Len(dbPending[c])
    /\ rows' = [rows EXCEPT ![c].SpentDaily = Numeric2(@ + dbPending[c][i]),
                            ![c].SpentTotal = Numeric2(@ + dbPending[c][i])]
    /\ dbPending' = [dbPending EXCEPT ![c] = RemoveAt(@, i)]
    /\ UNCHANGED <<budgetDaily, budgetTotal, setter, lastDebit, hist>>
    /\ UNCHANGED exceptBudget

\* the budget specification exercises the keys of one campaign; keys are scoped
\* by campaign id, so the other campaign's keys stay as they are
BudgetCampaigns == {"c1"}

NextBudget ==
    \/ \E c \in BudgetCampaigns, d \in Budgets, t \in Budgets : PipeSetDaily(c, d, t)
    \/ PipeSetTotal
    \/ \E c \in BudgetCampaigns : ExpireDailyKey(c)
    \/ \E c \in BudgetCampaigns, a \in Amounts : TryDebit(c, a)
    \/ \E c \in BudgetCampaigns, i \in 1..MaxPending : UpdateSpentInDB(c, i)

(***************************************************************************)
(* Frequency capping.  Time is a tick counter; a key with an expiry is     *)
(* gone once the clock reaches it.  The counters are those of one user.    *)
(***************************************************************************)
NoCounter == [present |-> FALSE, val |-> 0, ttl |-> FALSE, expireAt |-> 0]
IdlePipe  == [pc |-> "idle", c |-> "c1", event |-> "impression", window |-> 0, count |-> 0]

\* Client.GetFrequencyCount: a missing key reads as 0
GetFrequencyCount(key) == IF key.present THEN key.val ELSE 0

\* a check that still admits the request when the count equals the cap
CheckFrequencyCapInclusive(rule, count, eventType) ==
    IF ~rule.present THEN TRUE
    ELSE LET cap == IF eventType = "impression" THEN rule.ImpressionCap
                    ELSE IF eventType = "click" THEN rule.ClickCap
                    ELSE 0
         IN  ~(cap > 0 /\ count > cap)

\* Service.CheckFrequencyCap, after GetCampaign: no rule -> true; the cap of the
\* event type (0 for any other type); refused iff cap > 0 and count >= cap
CheckFrequencyCap(rule, count, eventType) ==
    IF ~rule.present THEN TRUE
    ELSE LET cap == IF eventType = "impression" THEN rule.ImpressionCap
                    ELSE IF eventType = "click" THEN rule.ClickCap
                    ELSE 0
         IN  ~(cap > 0 /\ count >= cap)

FreqAtRest ==
    /\ now = 0
    /\ freqKey = [c \in Campaigns |-> [e \in EventTypes |-> NoCounter]]
    /\ freqPipe = IdlePipe
    /\ served = [c \in Campaigns |-> <<>>]
    /\ expired = [c \in Campaigns |-> [e \in EventTypes |-> 0]]

FreqCampaigns == {"c1"}

\* createBidEntry's frequency step of an auction for this user: the campaign
\* stays in the auction iff CheckFrequencyCap answers true
AuctionCheckFrequencyCap(c) ==
    /\ Len(served[c]) < MaxServed
    /\ CheckFrequencyCap(rows[c].FrequencyCapping,
                         GetFrequencyCount(freqKey[c]["impression"]), "impression")
    /\ served' = [served EXCEPT ![c] = Append(@, now)]
    /\ UNCHANGED <<now, freqKey, freqPipe, expired>>
    /\ UNCHANGED exceptFreq

AuctionFrequencyCapExceeded(c) ==
    /\ ~CheckFrequencyCap(rows[c].FrequencyCapping,
                          GetFrequencyCount(freqKey[c]["impression"]), "impression")
    /\ UNCHANGED freqVars
    /\ UNCHANGED exceptFreq

\* Service.IncrementFrequencyCap from TrackImpression / TrackClick: nothing
\* without a rule; otherwise Client.IncrementFrequencyCap, the pipeline
\* INCR key, EXPIRE key window
PipeIncr(c, eventType) ==
    /\ freqPipe.pc = "idle"
    /\ rows[c].FrequencyCapping.present
    /\ freqKey[c][eventType].val < MaxServed
    /\ freqKey' = [freqKey EXCEPT ![c][eventType] =
                     IF @.present THEN [@ EXCEPT !.val = @ + 1]
                     ELSE [present |-> TRUE, val |-> 1, ttl |-> FALSE, expireAt |-> 0]]
    /\ freqPipe' = [pc |-> "incremented", c |-> c, event |-> eventType,
                    window |-> rows[c].FrequencyCapping.TimeWindow,
                    count |-> freqKey'[c][eventType].val]
    /\ UNCHANGED <<now, served, expired>>

\* a pipeline that arms the expiration on the first increment of a key only
PipeExpireFirstOnly ==
    /\ freqPipe.pc = "incremented"
    /\ freqKey' = [freqKey EXCEPT ![freqPipe.c][freqPipe.event] =
                     IF @.present /\ freqPipe.count = 1
                     THEN [@ EXCEPT !.ttl = TRUE, !.expireAt = now + freqPipe.window]
                     ELSE @]
    /\ freqPipe' = IdlePipe
    /\ UNCHANGED <<now, served, expired>>

PipeExpire ==
    /\ freqPipe.pc = "incremented"
    /\ freqKey' = [freqKey EXCEPT ![freqPipe.c][freqPipe.event] =
                     IF @.present
                     THEN [@ EXCEPT !.ttl = TRUE, !.expireAt = now + freqPipe.window]
                     ELSE @]
    /\ freqPipe' = IdlePipe
    /\ UNCHANGED <<now, served, expired>>

\* a Track call of the user, as far as the counters go
TrackIncr(c, eventType) == PipeIncr(c, eventType) /\ UNCHANGED exceptFreq

TrackExpire == PipeExpire /\ UNCHANGED exceptFreq

IncrementFrequencyCapNoRule(c, eventType) ==
    /\ freqPipe.pc = "idle"
    /\ ~rows[c].FrequencyCapping.present
    /\ UNCHANGED freqVars
    /\ UNCHANGED exceptFreq

\* time passes; Redis drops the keys whose expiry has come
Tick ==
    /\ now < MaxTime
    /\ now' = now + 1
    /\ freqKey' = [c \in Campaigns |-> [e \in EventTypes |->
                     IF /\ freqKey[c][e].present /\ freqKey[c][e].ttl
                        /\ freqKey[c][e].expireAt <= now + 1
                     THEN NoCounter ELSE freqKey[c][e]]]
    /\ expired' = [c \in Campaigns |-> [e \in EventTypes |->
                     IF freqKey[c][e].present /\ ~freqKey'[c][e].present
                     THEN expired[c][e] + 1 ELSE expired[c][e]]]
    /\ UNCHANGED <<freqPipe, served>>
    /\ UNCHANGED exceptFreq

NextFreq ==
    \/ \E c \in FreqCampaigns : AuctionCheckFrequencyCap(c)
    \/ \E c \in FreqCampaigns : AuctionFrequencyCapExceeded(c)
    \/ \E c \in FreqCampaigns, e \in EventTypes : TrackIncr(c, e)
    \/ TrackExpire
    \/ \E c \in FreqCampaigns, e \in EventTypes : IncrementFrequencyCapNoRule(c, e)
    \/ Tick


\* the Track calls of the user and the clock, without the auctions
NextWindow ==
    \/ \E c \in FreqCampaigns, e \in EventTypes : TrackIncr(c, e)
    \/ TrackExpire
    \/ \E c \in FreqCampaigns, e \in EventTypes : IncrementFrequencyCapNoRule(c, e)
    \/ Tick
(***************************************************************************)
(* Auction engine: pure parts                                              *)
(***************************************************************************)
BidTypes == {"CPM", "CPC", "CPA"}

\* a targeting check whose day-part interval includes its end hour
checkTargetingClosedEnd(req, campaign, clock) ==
    LET rules == campaign.TargetingRules IN
    IF ~rules.present THEN TRUE
    ELSE /\ (rules.GeoTargeting # {} /\ req.Geo.present) =>
                req.Geo.Country \in rules.GeoTargeting
         /\ rules.DeviceTypes # {} => ToString(req.DeviceType) \in rules.DeviceTypes
         /\ rules.DayParting # {} =>
                \E rule \in rules.DayParting :
                    /\ rule.DayOfWeek = clock.weekday
                    /\ clock.hour >= rule.StartHour
                    /\ clock.hour <= rule.EndHour

\* Engine.checkTargeting
checkTargeting(req, campaign, clock) ==
    LET rules == campaign.TargetingRules IN
    IF ~rules.present THEN TRUE
    ELSE /\ (rules.GeoTargeting # {} /\ req.Geo.present) =>
                req.Geo.Country \in rules.GeoTargeting
         /\ rules.DeviceTypes # {} => ToString(req.DeviceType) \in rules.DeviceTypes
         /\ rules.DayParting # {} =>
                \E rule \in rules.DayParting :
                    /\ rule.DayOfWeek = clock.weekday
                    /\ clock.hour >= rule.StartHour
                    /\ clock.hour < rule.EndHour

\* a bid amount whose multipliers add up: x1.3 for both
calculateBidAmountAdditive(campaign, req) ==
    LET device == IF req.DeviceType = 1 THEN 2 ELSE 0
        site   == IF req.SiteCat THEN 1 ELSE 0
    IN  (campaign.BidAmount * (10 + device + site)) \div 10

\* Engine.calculateBidAmount: base bid x1.2 for device type 1, x1.1 for a site
\* with categories
calculateBidAmount(campaign, req) ==
    LET device == IF req.DeviceType = 1 THEN 12 ELSE 10
        site   == IF req.SiteCat THEN 11 ELSE 10
    IN  (campaign.BidAmount * device * site) \div 100

\* Engine.calculateBidScore, times 100: x0.8 for CPC, x0.6 for CPA, x0.9 when
\* less than a fifth of the daily budget remains
calculateBidScore(campaign, bidAmount) ==
    LET model  == IF campaign.BidType = "CPC" THEN 8
                  ELSE IF campaign.BidType = "CPA" THEN 6 ELSE 10
        remain == campaign.BudgetDaily - campaign.SpentDaily
        budget == IF remain * 10 < campaign.BudgetDaily * 2 THEN 9 ELSE 10
    IN  bidAmount * model * budget

\* Service.CalculatePacingRate, times 10: spent/budget against minutes/1440,
\* with 1.2 * minutes/1440 written minutes/1200 (the division by a zero daily
\* budget gives +Inf or NaN in the program)
CalculatePacingRate(campaign, clock) ==
    LET minutes == clock.hour * 60 + clock.minute IN
    IF campaign.BudgetDaily = 0
    THEN (IF campaign.SpentDaily > 0 THEN 5 ELSE 10)
    ELSE IF campaign.SpentDaily * 1200 > minutes * campaign.BudgetDaily THEN 5
    ELSE IF campaign.SpentDaily * 1440 > minutes * campaign.BudgetDaily THEN 8
    ELSE 10

\* the orders sort.Slice may leave: any order with scores descending
SortedOrders(entries) ==
    {p \in Permutations(1..Len(entries)) :
        \A i, j \in 1..Len(entries) :
            i < j => entries[p[i]].Score >= entries[p[j]].Score}

Reorder(entries, p) == [i \in 1..Len(entries) |-> entries[p[i]]]

\* a variant that always takes the synthetic second price
selectWinnerAlwaysSynthetic(sorted) == (sorted[1].Price * 8) \div 10

\* a variant that takes nine tenths of a lone bid
selectWinnerNineTenths(sorted) ==
    IF Len(sorted) > 1 THEN sorted[2].Price
    ELSE (sorted[1].Price * 9) \div 10

\* Engine.selectWinner, after the sort: the second price
selectWinner(sorted) ==
    IF Len(sorted) > 1 THEN sorted[2].Price
    ELSE (sorted[1].Price * 8) \div 10

\* a variant without the cap at the winning bid
determineFinalPriceNoCap(winningBid, second, bidFloor) ==
    IF second + Penny < bidFloor THEN bidFloor ELSE second + Penny

\* Engine.determineFinalPrice
determineFinalPrice(winningBid, second, bidFloor) ==
    LET plusPenny == second + Penny
        floored   == IF plusPenny < bidFloor THEN bidFloor ELSE plusPenny
    IN  IF floored > winningBid THEN winningBid ELSE floored

\* ListActiveCampaigns' WHERE clause
IsListedActive(row, time) ==
    /\ row.Status = "active"
    /\ row.StartDate <= time
    /\ (~row.EndDate.present \/ row.EndDate.val > time)
    /\ row.SpentTotal < row.BudgetTotal
    /\ row.SpentDaily < row.BudgetDaily

(***************************************************************************)
(* Engine.RunAuction                                                       *)
(***************************************************************************)
AuctionAtRest ==
    /\ request = [Imp |-> <<[BidFloor |-> 0]>>, DeviceType |-> 0, SiteCat |-> FALSE, UserID |-> "",
                  Geo |-> [present |-> FALSE, Country |-> ""]]
    /\ wall = [weekday |-> 1, hour |-> 12, minute |-> 0]
    /\ apc = "idle"
    /\ deadlineFired = FALSE
    /\ task = [c \in Campaigns |-> "none"]
    /\ bidChan = <<>>
    /\ ranked = <<>>
    /\ secondPrice = 0
    /\ finalPrice = 0
    /\ outcome = "none"
    /\ topics = <<>>

NoBid(next) ==
    /\ outcome' = "nobid"
    /\ apc' = next

\* RunAuction up to ListActiveCampaigns: the context with the deadline, then
\* publishBidRequest
StartAuction ==
    /\ apc = "idle"
    /\ apc' = "listing"
    /\ topics' = Append(topics, "bid-requests")
    /\ UNCHANGED <<request, wall, deadlineFired, task, bidChan, ranked, secondPrice,
                   finalPrice, outcome>>
    /\ UNCHANGED exceptAuction

\* the deadline of auctionCtx passes
DeadlineFires ==
    /\ apc \notin {"idle", "done", "crashed"}
    /\ ~deadlineFired
    /\ deadlineFired' = TRUE
    /\ UNCHANGED <<request, wall, apc, task, bidChan, ranked, secondPrice, finalPrice,
                   outcome, topics>>
    /\ UNCHANGED exceptAuction

\* ListActiveCampaigns(auctionCtx) fails: the context is done, or the database
\* is; RunAuction returns (nil, err)
ListActiveFails ==
    /\ apc = "listing"
    /\ outcome' = "error"
    /\ apc' = "done"
    /\ UNCHANGED <<request, wall, deadlineFired, task, bidChan, ranked, secondPrice,
                   finalPrice, topics>>
    /\ UNCHANGED exceptAuction

\* ListActiveCampaigns answers; with no campaign the auction is a no-bid,
\* otherwise collectBids starts one goroutine per campaign
ListActive ==
    /\ apc = "listing"
    /\ ~deadlineFired
    /\ LET active == {c \in Campaigns : IsListedActive(rows[c], now)} IN
         IF active = {}
         THEN NoBid("done") /\ UNCHANGED task
         ELSE /\ apc' = "collecting"
              /\ task' = [c \in Campaigns |-> IF c \in active THEN "targeting" ELSE "none"]
              /\ UNCHANGED outcome
    /\ UNCHANGED <<request, wall, deadlineFired, bidChan, ranked, secondPrice,
                   finalPrice, topics>>
    /\ UNCHANGED exceptAuction

\* createBidEntry: checkTargeting
TaskTargeting(c) ==
    /\ apc = "collecting"
    /\ task[c] = "targeting"
    /\ task' = [task EXCEPT ![c] =
                  IF ~checkTargeting(request, rows[c], wall) THEN "dropped"
                  ELSE IF request.UserID # "" THEN "frequency"
                  ELSE "pacing"]
    /\ UNCHANGED <<request, wall, apc, deadlineFired, bidChan, ranked, secondPrice,
                   finalPrice, outcome, topics>>
    /\ UNCHANGED exceptAuction

\* createBidEntry: CheckFrequencyCap(ctx, user, campaign, "impression") answers
TaskFrequency(c) ==
    /\ apc = "collecting"
    /\ task[c] = "frequency"
    /\ ~deadlineFired
    /\ task' = [task EXCEPT ![c] =
                  IF CheckFrequencyCap(rows[c].FrequencyCapping,
                                       GetFrequencyCount(freqKey[c]["impression"]),
                                       "impression")
                  THEN "pacing" ELSE "dropped"]
    /\ UNCHANGED <<request, wall, apc, deadlineFired, bidChan, ranked, secondPrice,
                   finalPrice, outcome, topics>>
    /\ UNCHANGED exceptAuction

\* createBidEntry: CheckFrequencyCap returns an error (GetCampaign on a context
\* that is done, or a store that fails): no entry
TaskFrequencyFails(c) ==
    /\ apc = "collecting"
    /\ task[c] = "frequency"
    /\ task' = [task EXCEPT ![c] = "dropped"]
    /\ UNCHANGED <<request, wall, apc, deadlineFired, bidChan, ranked, secondPrice,
                   finalPrice, outcome, topics>>
    /\ UNCHANGED exceptAuction

\* createBidEntry from CalculatePacingRate on: the rate (1.0 with the error
\* dropped when GetCampaign fails, as it does on a context that is done), the
\* draw u > rate, the bid amount, the floor when the request has an impression,
\* then the bid, whose ImpID is request.Imp[0].ID: with no impression the index
\* is out of range and the goroutine panics, which ends the process. Otherwise
\* the entry is sent on bidChan
TaskPacingAndBid(c, failed, drawAbove) ==
    /\ apc = "collecting"
    /\ task[c] = "pacing"
    /\ deadlineFired => failed
    /\ LET rate   == IF failed THEN 10 ELSE CalculatePacingRate(rows[c], wall)
           amount == calculateBidAmount(rows[c], request)
       IN  /\ drawAbove => rate < 10
           /\ IF drawAbove \/ (Len(request.Imp) > 0 /\ amount < request.Imp[1].BidFloor)
              THEN /\ task' = [task EXCEPT ![c] = "dropped"]
                   /\ UNCHANGED <<bidChan, apc, outcome>>
              ELSE IF Len(request.Imp) = 0
              THEN /\ task' = [task EXCEPT ![c] = "panic"]
                   /\ apc' = "crashed"
                   /\ outcome' = "panic"
                   /\ UNCHANGED bidChan
              ELSE /\ task' = [task EXCEPT ![c] = "done"]
                   /\ bidChan' = Append(bidChan,
                                   [c |-> c, Price |-> amount,
                                    Score |-> calculateBidScore(rows[c], amount),
                                    late |-> deadlineFired])
                   /\ UNCHANGED <<apc, outcome>>
    /\ UNCHANGED <<request, wall, deadlineFired, ranked, secondPrice, finalPrice, topics>>
    /\ UNCHANGED exceptAuction

TasksOver == \A c \in Campaigns : task[c] \in {"none", "dropped", "done"}

\* collectBids returns after wg.Wait(); RunAuction then sorts, picks the winner
\* and resolves the price
CollectAndSelect ==
    /\ apc = "collecting"
    /\ TasksOver
    /\ IF bidChan = <<>>
       THEN NoBid("done") /\ UNCHANGED <<ranked, secondPrice, finalPrice>>
       ELSE \E p \in SortedOrders(bidChan) :
              LET sorted == Reorder(bidChan, p)
                  second == selectWinner(sorted)
              IN  /\ ranked' = sorted
                  /\ secondPrice' = second
                  /\ finalPrice' = determineFinalPrice(sorted[1].Price, second,
                                                       request.Imp[1].BidFloor)
                  /\ apc' = "committing"
                  /\ UNCHANGED outcome
    /\ UNCHANGED <<request, wall, deadlineFired, task, bidChan, topics>>
    /\ UNCHANGED exceptAuction

\* a variant that goes on to respond whatever the debit answered
CommitRespondsAnyway ==
    /\ apc = "committing"
    /\ CheckAndDecrementBudget(ranked[1].c, finalPrice)
    /\ apc' = "responding" /\ UNCHANGED outcome
    /\ UNCHANGED <<request, wall, deadlineFired, task, bidChan, ranked, secondPrice,
                   finalPrice, topics>>
    /\ UNCHANGED <<freqVars, trackVars, campaignVars, schedVars, metricVars,
                   raceVars, kafkaVars>>

\* CheckAndDecrementBudget(ctx, winner, finalPrice) answers
Commit ==
    /\ apc = "committing"
    /\ CheckAndDecrementBudget(ranked[1].c, finalPrice)
    /\ IF lastDebit'.allowed
       THEN apc' = "responding" /\ UNCHANGED outcome
       ELSE NoBid("done")
    /\ UNCHANGED <<request, wall, deadlineFired, task, bidChan, ranked, secondPrice,
                   finalPrice, topics>>
    /\ UNCHANGED <<freqVars, trackVars, campaignVars, schedVars, metricVars,
                   raceVars, kafkaVars>>

\* CheckAndDecrementBudget returns an error: a no-bid
CommitFails ==
    /\ apc = "committing"
    /\ NoBid("done")
    /\ UNCHANGED <<request, wall, deadlineFired, task, bidChan, ranked, secondPrice,
                   finalPrice, topics>>
    /\ UNCHANGED exceptAuction

\* what Respond publishes: recordAuctionResult's PublishEvent, whose error is
\* dropped, then publishBidResponse, whose error is logged
Published(resultSent, responseSent) ==
    (IF resultSent THEN <<"auction-results">> ELSE <<>>)
        \o (IF responseSent THEN <<"bid-responses">> ELSE <<>>)

\* a variant that gives the price back to the daily counter when the deadline
\* has passed
RespondRefundsLate(resultSent, responseSent) ==
    /\ apc = "responding"
    /\ outcome' = "bid"
    /\ apc' = "done"
    /\ topics' = topics \o Published(resultSent, responseSent)
    /\ budgetDaily' = IF deadlineFired
                      THEN [budgetDaily EXCEPT ![ranked[1].c] = Key(@.val + finalPrice)]
                      ELSE budgetDaily
    /\ UNCHANGED <<request, wall, deadlineFired, task, bidChan, ranked, secondPrice,
                   finalPrice>>
    /\ UNCHANGED <<budgetTotal, rows, dbPending, setter, lastDebit, hist>>
    /\ UNCHANGED <<freqVars, trackVars, campaignVars, schedVars, metricVars, raceVars, kafkaVars>>

\* createBidResponse, recordAuctionResult, publishBidResponse: the result is
\* cached (a failure is logged) and published, the response is published, and
\* RunAuction returns the response whatever became of the three writes
Respond(resultSent, responseSent) ==
    /\ apc = "responding"
    /\ outcome' = "bid"
    /\ apc' = "done"
    /\ topics' = topics \o Published(resultSent, responseSent)
    /\ UNCHANGED <<request, wall, deadlineFired, task, bidChan, ranked, secondPrice,
                   finalPrice>>
    /\ UNCHANGED exceptAuction

NextAuction ==
    \/ StartAuction
    \/ DeadlineFires
    \/ ListActiveFails
    \/ ListActive
    \/ \E c \in Campaigns : TaskTargeting(c)
    \/ \E c \in Campaigns : TaskFrequency(c)
    \/ \E c \in Campaigns : TaskFrequencyFails(c)
    \/ \E c \in Campaigns, failed \in BOOLEAN, drawAbove \in BOOLEAN :
           TaskPacingAndBid(c, failed, drawAbove)
    \/ CollectAndSelect
    \/ Commit
    \/ CommitFails
    \/ \E resultSent \in BOOLEAN, responseSent \in BOOLEAN :
           Respond(resultSent, responseSent)
    \/ \E c \in Campaigns : UpdateSpentInDB(c, 1)

(***************************************************************************)
(* Tracking service.  One Track call runs at a time, beside the workers    *)
(* and the batch processor; main shuts down once the HTTP server has, with *)
(* no Track call in progress.                                              *)
(***************************************************************************)
MaxEvents  == 2     \* Track calls over a run
BufferSize == 1     \* capacity of eventBuffer (10000 in the program)
BatchLimit == 2     \* batch length that triggers a flush (100 in the program)
WorkerPool == 2     \* processEventWorker goroutines (10 in the program)

TrackEventTypes == {"impression", "click", "conversion"}

\* campaign ids a Track call may carry: a campaign, uuid.Nil, or an id without a row
TrackTargets == Campaigns \cup {"nil", "gone"}

NoCall == [pc |-> "idle", id |-> 0, Type |-> "impression", c |-> "nil", UserID |-> "",
           Price |-> 0, debits |-> 0, amount |-> 0, counted |-> FALSE, freqd |-> FALSE,
           queued |-> FALSE, inlined |-> FALSE, published |-> FALSE, result |-> "none",
           metrics0 |-> <<>>, freq0 |-> <<>>]

\* what a receive from the closed, drained channel yields: a nil *TrackingEvent
NilEvent == [id |-> 0, Type |-> "nil", c |-> "nil", Price |-> 0]

\* the event of a call, as far as the rows written from it are looked at
EventOf(k) == [id |-> k.id, Type |-> k.Type, c |-> k.c, Price |-> k.Price]

MetricKind(type) == IF type = "impression" THEN "impressions"
                    ELSE IF type = "click" THEN "clicks" ELSE "conversions"

MetricKinds == {"impressions", "clicks", "conversions"}

Ids(events) == {events[i].id : i \in 1..Len(events)} \ {0}

TrackAtRest ==
    /\ call = NoCall
    /\ nextId = 1
    /\ eventBuffer = <<>>
    /\ bufferClosed = FALSE
    /\ batch = <<>>
    /\ batchPc = "running"
    /\ workersRunning = WorkerPool
    /\ persisted = {}
    /\ metrics = [c \in Campaigns |-> [k \in MetricKinds |-> [day |-> 0, hour |-> 0]]]
    /\ accepted = {}
    /\ mainPc = "serving"
    /\ ctxCancelled = FALSE

\* the process is running
Alive == mainPc \notin {"exited", "crashed"}

\* a variant in which a failed validation does not end the call
FailCarriesOn(k) == [k EXCEPT !.pc = "count"]

\* a Track call returns err
Fail(k) == [k EXCEPT !.pc = "returned", !.result = "error"]

(***************************************************************************)
(* TrackImpression / TrackClick / TrackConversion, step by step            *)
(***************************************************************************)
\* the handler builds the event and the Track function gives it its id and type;
\* a conversion arrives with the request's value as its price.  metrics0 and
\* freq0 keep what the counters were when the call began.
TrackBegin(type, c, user, value) ==
    /\ Alive /\ mainPc = "serving"
    /\ call.pc \in {"idle", "returned"}
    /\ nextId <= MaxEvents
    /\ type # "conversion" => value = 0
    /\ call' = [NoCall EXCEPT !.pc = "validate", !.id = nextId, !.Type = type, !.c = c,
                              !.UserID = user, !.Price = value,
                              !.metrics0 = metrics, !.freq0 = freqKey]
    /\ nextId' = nextId + 1
    /\ UNCHANGED <<eventBuffer, bufferClosed, batch, batchPc, workersRunning, persisted,
                   metrics, accepted, mainPc, ctxCancelled>>
    /\ UNCHANGED exceptTrack

\* a variant that bills every click and conversion
NeedsDebitAlways(row, type) == type \in {"click", "conversion"}

\* the debit validateAndEnrichEvent asks for, given the campaign's row
NeedsDebit(row, type) ==
    \/ row.BidType = "CPC" /\ type = "click"
    \/ row.BidType = "CPA" /\ type = "conversion"

\* validateAndEnrichEvent up to the debit: the nil id, GetCampaign, the status,
\* the price of a click or conversion
Validate(k) ==
    IF k.c = "nil" THEN Fail(k)
    ELSE IF k.c \notin Campaigns THEN Fail(k)
    ELSE IF rows[k.c].Status # "active" THEN Fail(k)
    ELSE LET priced == IF k.Type \in {"click", "conversion"}
                       THEN [k EXCEPT !.Price = rows[k.c].BidAmount] ELSE k
         IN  [priced EXCEPT !.pc = IF NeedsDebit(rows[k.c], k.Type) THEN "debit"
                                   ELSE "count"]

TrackValidate ==
    /\ Alive
    /\ call.pc = "validate"
    /\ call' = Validate(call)
    /\ UNCHANGED <<nextId, eventBuffer, bufferClosed, batch, batchPc, workersRunning,
                   persisted, metrics, accepted, mainPc, ctxCancelled>>
    /\ UNCHANGED exceptTrack

\* validateAndEnrichEvent: CheckAndDecrementBudget(ctx, campaign.ID, event.Price)
TrackDebit ==
    /\ Alive
    /\ call.pc = "debit"
    /\ CheckAndDecrementBudget(call.c, call.Price)
    /\ call' = LET k == [call EXCEPT !.debits = @ + 1, !.amount = call.Price]
               IN  IF lastDebit'.allowed THEN [k EXCEPT !.pc = "count"] ELSE Fail(k)
    /\ UNCHANGED <<nextId, eventBuffer, bufferClosed, batch, batchPc, workersRunning,
                   persisted, metrics, accepted, mainPc, ctxCancelled>>
    /\ UNCHANGED <<freqVars, auctionVars, campaignVars, schedVars, metricVars,
                   raceVars, kafkaVars>>

\* Client.IncrementMetric: INCR and EXPIRE of the day key and of the hour key
TrackCount ==
    /\ Alive
    /\ call.pc = "count"
    /\ metrics' = [metrics EXCEPT ![call.c][MetricKind(call.Type)] =
                     [day |-> @.day + 1, hour |-> @.hour + 1]]
    /\ call' = [call EXCEPT !.counted = TRUE,
                            !.pc = IF call.UserID # "" /\ call.Type # "conversion"
                                   THEN "freq" ELSE "enqueue"]
    /\ UNCHANGED <<nextId, eventBuffer, bufferClosed, batch, batchPc, workersRunning,
                   persisted, accepted, mainPc, ctxCancelled>>
    /\ UNCHANGED exceptTrack

\* Service.IncrementFrequencyCap on a campaign without a rule: nothing
TrackFreqNoRule ==
    /\ Alive
    /\ call.pc = "freq"
    /\ ~rows[call.c].FrequencyCapping.present
    /\ call' = [call EXCEPT !.pc = "enqueue"]
    /\ UNCHANGED <<nextId, eventBuffer, bufferClosed, batch, batchPc, workersRunning,
                   persisted, metrics, accepted, mainPc, ctxCancelled>>
    /\ UNCHANGED exceptTrack

\* Client.IncrementFrequencyCap: INCR
TrackFreqIncr ==
    /\ Alive
    /\ call.pc = "freq"
    /\ PipeIncr(call.c, call.Type)
    /\ call' = [call EXCEPT !.pc = "freq_expire", !.freqd = TRUE]
    /\ UNCHANGED <<nextId, eventBuffer, bufferClosed, batch, batchPc, workersRunning,
                   persisted, metrics, accepted, mainPc, ctxCancelled>>
    /\ UNCHANGED <<budgetVars, auctionVars, campaignVars, schedVars, metricVars,
                   raceVars, kafkaVars>>

\* Client.IncrementFrequencyCap: EXPIRE
TrackFreqExpire ==
    /\ Alive
    /\ call.pc = "freq_expire"
    /\ PipeExpire
    /\ call' = [call EXCEPT !.pc = "enqueue"]
    /\ UNCHANGED <<nextId, eventBuffer, bufferClosed, batch, batchPc, workersRunning,
                   persisted, metrics, accepted, mainPc, ctxCancelled>>
    /\ UNCHANGED <<budgetVars, auctionVars, campaignVars, schedVars, metricVars,
                   raceVars, kafkaVars>>

\* a variant that writes the row itself and still queues the event when the
\* buffer is full
TrackEnqueueAlsoQueues ==
    /\ Alive
    /\ call.pc = "enqueue"
    /\ IF bufferClosed
       THEN /\ call' = [call EXCEPT !.pc = "returned", !.result = "panic"]
            /\ UNCHANGED <<eventBuffer, persisted>>
       ELSE IF Len(eventBuffer) < BufferSize
       THEN /\ eventBuffer' = Append(eventBuffer, EventOf(call))
            /\ call' = [call EXCEPT !.pc = "publish", !.queued = TRUE]
            /\ UNCHANGED persisted
       ELSE /\ persisted' = persisted \cup {call.id}
            /\ call' = [call EXCEPT !.pc = "publish", !.inlined = TRUE]
            /\ eventBuffer' = Append(eventBuffer, EventOf(call))
    /\ UNCHANGED <<nextId, bufferClosed, batch, batchPc, workersRunning, metrics,
                   accepted, mainPc, ctxCancelled>>
    /\ UNCHANGED exceptTrack

\* select { case s.eventBuffer <- event: default: processEvent }.  A send on the
\* closed channel panics (gin's Recovery turns that into a 500); a full buffer
\* makes the call insert the row itself.
TrackEnqueue ==
    /\ Alive
    /\ call.pc = "enqueue"
    /\ IF bufferClosed
       THEN /\ call' = [call EXCEPT !.pc = "returned", !.result = "panic"]
            /\ UNCHANGED <<eventBuffer, persisted>>
       ELSE IF Len(eventBuffer) < BufferSize
       THEN /\ eventBuffer' = Append(eventBuffer, EventOf(call))
            /\ call' = [call EXCEPT !.pc = "publish", !.queued = TRUE]
            /\ UNCHANGED persisted
       ELSE /\ persisted' = persisted \cup {call.id}
            /\ call' = [call EXCEPT !.pc = "publish", !.inlined = TRUE]
            /\ UNCHANGED eventBuffer
    /\ UNCHANGED <<nextId, bufferClosed, batch, batchPc, workersRunning, metrics,
                   accepted, mainPc, ctxCancelled>>
    /\ UNCHANGED exceptTrack

\* the buffer is full and the call's own processEvent fails (the INSERT returns
\* an error): the call returns that error, before the publish
TrackInlineFails ==
    /\ Alive
    /\ call.pc = "enqueue"
    /\ ~bufferClosed
    /\ Len(eventBuffer) >= BufferSize
    /\ call' = [call EXCEPT !.pc = "returned", !.inlined = TRUE, !.result = "error"]
    /\ UNCHANGED <<nextId, eventBuffer, bufferClosed, batch, batchPc, workersRunning,
                   persisted, metrics, accepted, mainPc, ctxCancelled>>
    /\ UNCHANGED exceptTrack

\* the publish to the event's topic, then return nil
TrackPublish ==
    /\ Alive
    /\ call.pc = "publish"
    /\ call' = [call EXCEPT !.pc = "returned", !.published = TRUE, !.result = "ok"]
    /\ accepted' = accepted \cup {call.id}
    /\ UNCHANGED <<nextId, eventBuffer, bufferClosed, batch, batchPc, workersRunning,
                   persisted, metrics, mainPc, ctxCancelled>>
    /\ UNCHANGED exceptTrack

(***************************************************************************)
(* The goroutines Start launches                                           *)
(***************************************************************************)
\* processEventWorker takes an event and runs processEvent(ctx, event): the
\* INSERT fails on a context that is done (the error is logged)
WorkerProcess ==
    /\ Alive
    /\ workersRunning > 0
    /\ eventBuffer # <<>>
    /\ eventBuffer' = Tail(eventBuffer)
    /\ persisted' = IF ctxCancelled THEN persisted
                    ELSE persisted \cup {Head(eventBuffer).id}
    /\ UNCHANGED <<call, nextId, bufferClosed, batch, batchPc, workersRunning, metrics,
                   accepted, mainPc, ctxCancelled>>
    /\ UNCHANGED exceptTrack

\* processEventWorker takes an event and its INSERT fails for a reason of the
\* store's: the error is logged and the event dropped
WorkerProcessFails ==
    /\ Alive
    /\ workersRunning > 0
    /\ eventBuffer # <<>>
    /\ ~ctxCancelled
    /\ eventBuffer' = Tail(eventBuffer)
    /\ UNCHANGED <<call, nextId, bufferClosed, batch, batchPc, workersRunning, persisted,
                   metrics, accepted, mainPc, ctxCancelled>>
    /\ UNCHANGED exceptTrack

\* processEventWorker returns: ctx is done, or the channel is closed and empty
WorkerReturns ==
    /\ Alive
    /\ workersRunning > 0
    /\ ctxCancelled \/ (bufferClosed /\ eventBuffer = <<>>)
    /\ workersRunning' = workersRunning - 1
    /\ UNCHANGED <<call, nextId, eventBuffer, bufferClosed, batch, batchPc, persisted,
                   metrics, accepted, mainPc, ctxCancelled>>
    /\ UNCHANGED exceptTrack

\* Service.processBatch: nothing on a context that is done (BeginTx fails); a nil
\* event panics before the commit; otherwise every event of the batch is a row
processBatch(events, cancelled) ==
    IF events = <<>> \/ cancelled THEN [rows |-> {}, panic |-> FALSE]
    ELSE IF \E i \in 1..Len(events) : events[i] = NilEvent
    THEN [rows |-> {}, panic |-> TRUE]
    ELSE [rows |-> Ids(events), panic |-> FALSE]

\* the batch processor runs processBatch on b and carries on with an empty batch;
\* a panic in the goroutine ends the process
Flush(b) ==
    LET r == processBatch(b, ctxCancelled) IN
    /\ persisted' = persisted \cup r.rows
    /\ batch' = <<>>
    /\ batchPc' = IF r.panic THEN "panicked" ELSE batchPc
    /\ mainPc' = IF r.panic THEN "crashed" ELSE mainPc

\* a variant whose receive leaves the event in the buffer
BatchReceiveKeeps ==
    /\ Alive
    /\ batchPc = "running"
    /\ eventBuffer # <<>> \/ bufferClosed
    /\ LET event == IF eventBuffer # <<>> THEN Head(eventBuffer) ELSE NilEvent
           b     == Append(batch, event)
       IN  /\ eventBuffer' = eventBuffer
           /\ IF Len(b) >= BatchLimit
              THEN Flush(b)
              ELSE batch' = b /\ UNCHANGED <<persisted, batchPc, mainPc>>
    /\ UNCHANGED <<call, nextId, bufferClosed, workersRunning, metrics, accepted,
                   ctxCancelled>>
    /\ UNCHANGED exceptTrack

\* batchProcessor: case event := <-s.eventBuffer, a queued event or, from the
\* closed and drained channel, nil
BatchReceive ==
    /\ Alive
    /\ batchPc = "running"
    /\ eventBuffer # <<>> \/ bufferClosed
    /\ LET event == IF eventBuffer # <<>> THEN Head(eventBuffer) ELSE NilEvent
           b     == Append(batch, event)
       IN  /\ eventBuffer' = IF eventBuffer # <<>> THEN Tail(eventBuffer) ELSE eventBuffer
           /\ IF Len(b) >= BatchLimit
              THEN Flush(b)
              ELSE batch' = b /\ UNCHANGED <<persisted, batchPc, mainPc>>
    /\ UNCHANGED <<call, nextId, bufferClosed, workersRunning, metrics, accepted,
                   ctxCancelled>>
    /\ UNCHANGED exceptTrack

\* batchProcessor: case <-ticker.C
BatchTick ==
    /\ Alive
    /\ batchPc = "running"
    /\ batch # <<>>
    /\ Flush(batch)
    /\ UNCHANGED <<call, nextId, eventBuffer, bufferClosed, workersRunning, metrics,
                   accepted, ctxCancelled>>
    /\ UNCHANGED exceptTrack

\* batchProcessor: case <-ctx.Done(): processBatch(ctx, batch) and return
BatchCtxDone ==
    /\ Alive
    /\ batchPc = "running"
    /\ ctxCancelled
    /\ persisted' = persisted \cup processBatch(batch, ctxCancelled).rows
    /\ batchPc' = "exited"
    /\ UNCHANGED <<call, nextId, eventBuffer, bufferClosed, batch, workersRunning,
                   metrics, accepted, mainPc, ctxCancelled>>
    /\ UNCHANGED exceptTrack

(***************************************************************************)
(* main: the deferred calls run in the order Stop, cancel; then the        *)
(* process exits                                                           *)
(***************************************************************************)
\* srv.Shutdown has returned with every handler finished; Service.Stop:
\* close(s.eventBuffer)
MainStop ==
    /\ mainPc = "serving"
    /\ call.pc \in {"idle", "returned"}
    /\ bufferClosed' = TRUE
    /\ mainPc' = "waiting"
    /\ UNCHANGED <<call, nextId, eventBuffer, batch, batchPc, workersRunning, persisted,
                   metrics, accepted, ctxCancelled>>
    /\ UNCHANGED exceptTrack

\* Service.Stop: s.wg.Wait() returns once every worker has
MainStopReturns ==
    /\ mainPc = "waiting"
    /\ workersRunning = 0
    /\ mainPc' = "stopped"
    /\ UNCHANGED <<call, nextId, eventBuffer, bufferClosed, batch, batchPc,
                   workersRunning, persisted, metrics, accepted, ctxCancelled>>
    /\ UNCHANGED exceptTrack

\* defer cancel()
MainCancel ==
    /\ mainPc = "stopped"
    /\ ctxCancelled' = TRUE
    /\ mainPc' = "cancelled"
    /\ UNCHANGED <<call, nextId, eventBuffer, bufferClosed, batch, batchPc,
                   workersRunning, persisted, metrics, accepted>>
    /\ UNCHANGED exceptTrack

\* main returns and the process ends, whatever its goroutines are doing
MainExit ==
    /\ mainPc = "cancelled"
    /\ mainPc' = "exited"
    /\ UNCHANGED <<call, nextId, eventBuffer, bufferClosed, batch, batchPc,
                   workersRunning, persisted, metrics, accepted, ctxCancelled>>
    /\ UNCHANGED exceptTrack

\* the updateSpentInDB goroutine of a committed debit
TrackUpdateSpentInDB(c) == Alive /\ UpdateSpentInDB(c, 1)


NextTrack ==
    \/ \E type \in TrackEventTypes, c \in TrackTargets, user \in {"", "u1"},
          value \in {0, 7 * Penny} : TrackBegin(type, c, user, value)
    \/ TrackValidate
    \/ TrackDebit
    \/ TrackCount
    \/ TrackFreqNoRule
    \/ TrackFreqIncr
    \/ TrackFreqExpire
    \/ TrackEnqueue
    \/ TrackInlineFails
    \/ TrackPublish
    \/ WorkerProcess
    \/ WorkerProcessFails
    \/ WorkerReturns
    \/ BatchReceive
    \/ BatchTick
    \/ BatchCtxDone
    \/ MainStop
    \/ MainStopReturns
    \/ MainCancel
    \/ MainExit
    \/ \E c \in Campaigns : TrackUpdateSpentInDB(c)

\* the service while it runs: no shutdown, and a durable store that takes every
\* write.  Track calls for an active and for a paused campaign, from a known user.
NextTrackUp ==
    \/ \E type \in TrackEventTypes, c \in Campaigns : TrackBegin(type, c, "u1", 0)
    \/ TrackValidate
    \/ TrackDebit
    \/ TrackCount
    \/ TrackFreqNoRule
    \/ TrackFreqIncr
    \/ TrackFreqExpire
    \/ TrackEnqueue
    \/ TrackPublish
    \/ WorkerProcess
    \/ BatchReceive
    \/ BatchTick
    \/ \E c \in Campaigns : TrackUpdateSpentInDB(c)

\* srv.Shutdown gives up at its timeout with a handler still running; main goes
\* on to its deferred calls and Service.Stop closes the buffer
MainStopTimedOut ==
    /\ mainPc = "serving"
    /\ call.pc \notin {"idle", "returned"}
    /\ bufferClosed' = TRUE
    /\ mainPc' = "waiting"
    /\ UNCHANGED <<call, nextId, eventBuffer, batch, batchPc, workersRunning, persisted,
                   metrics, accepted, ctxCancelled>>
    /\ UNCHANGED exceptTrack

\* the Track calls, the consumers and a shutdown that may not wait for the
\* handlers
NextTrackStop ==
    \/ NextTrackUp
    \/ WorkerReturns
    \/ BatchCtxDone
    \/ MainStop
    \/ MainStopTimedOut
    \/ MainStopReturns
    \/ MainCancel
    \/ MainExit

(***************************************************************************)
(* The campaign service: CreateCampaign, GetCampaign, UpdateCampaign and   *)
(* ResetDailyBudgets, with the debits of the campaigns they manage.        *)
(***************************************************************************)
MaxUpdates == 2     \* cap on the campaign updates published
MaxDay     == 1     \* the campaign service's clock runs over 0..MaxDay

IdleOp == [pc |-> "idle", kind |-> "none", c |-> "c1", daily |-> 0, total |-> 0,
           in |-> BlankRow, todo |-> {}, result |-> "none"]

NotFound == [found |-> FALSE, campaign |-> BlankRow]

\* no call of the campaign service has been made; the table holds the rows of
\* the campaigns in use
CampaignAtRest ==
    /\ created = Campaigns
    /\ op = IdleOp
    /\ updates = <<>>
    /\ got = NotFound
    /\ debited = [c \in Campaigns |-> 0]

\* the campaign service specification creates and manages one campaign
CampaignIds == {"c1"}

\* a request body the handler binds: budgets 0.02 / 0.03, a bid of 0.01, no end date
GoodInput == [BlankRow EXCEPT !.Status = "active", !.BudgetDaily = 2 * Penny,
                              !.BudgetTotal = 3 * Penny, !.BidAmount = Penny,
                              !.SpentDaily = Penny, !.SpentTotal = Penny]

\* the bodies POST /campaigns is given here: the good one and bodies differing
\* from it in one field
CreateInputs ==
    { GoodInput,
      [GoodInput EXCEPT !.BudgetDaily = 0],
      [GoodInput EXCEPT !.BudgetTotal = Penny],
      [GoodInput EXCEPT !.BidAmount = -Penny],
      [GoodInput EXCEPT !.StartDate = 1, !.EndDate = [present |-> TRUE, val |-> 1]],
      [GoodInput EXCEPT !.BudgetDaily = 2 * Penny + Penny \div 2],
      [GoodInput EXCEPT !.BidAmount = Penny + 5] }

\* the bodies PUT /campaigns/:id is given: the stored campaign with a status and
\* a daily budget of the client's choice and a total budget of 0.01
UpdateStatuses == {"active", "paused"}
UpdateBudgets  == {Penny, 2 * Penny}
UpdateInput(c, status, daily) ==
    [rows[c] EXCEPT !.Status = status, !.BudgetDaily = daily, !.BudgetTotal = Penny]

\* what the campaigns table keeps of a campaign: NUMERIC columns round
Stored(campaign) ==
    [campaign EXCEPT !.BudgetDaily = Numeric2(@), !.BudgetTotal = Numeric2(@),
                     !.SpentDaily = Numeric2(@), !.SpentTotal = Numeric2(@),
                     !.BidAmount = Numeric4(@)]

Idle == op.pc \in {"idle", "returned"}

\* a variant of CreateCampaign that keeps the status the client gave
CreateCampaignKeepsStatus(c, in) ==
    /\ Idle
    /\ c \notin created
    /\ Len(updates) < MaxUpdates
    /\ LET campaign == [in EXCEPT !.SpentDaily = 0, !.SpentTotal = 0] IN
         /\ rows' = [rows EXCEPT ![c] = Stored(campaign)]
         /\ op' = [pc |-> "set_daily", kind |-> "created", c |-> c,
                   daily |-> campaign.BudgetDaily, total |-> campaign.BudgetTotal,
                   in |-> campaign, todo |-> {}, result |-> "none"]
    /\ created' = created \cup {c}
    /\ UNCHANGED <<budgetDaily, budgetTotal, dbPending, setter, lastDebit, hist>>
    /\ UNCHANGED <<updates, got, debited>>
    /\ UNCHANGED exceptCampaign

\* Service.CreateCampaign up to its INSERT: the id is new, status, spend and
\* timestamps are the server's; then SetCampaignBudget and the publication
CreateCampaign(c, in) ==
    /\ Idle
    /\ c \notin created
    /\ Len(updates) < MaxUpdates
    /\ LET campaign == [in EXCEPT !.Status = "draft", !.SpentDaily = 0, !.SpentTotal = 0] IN
         /\ rows' = [rows EXCEPT ![c] = Stored(campaign)]
         /\ op' = [pc |-> "set_daily", kind |-> "created", c |-> c,
                   daily |-> campaign.BudgetDaily, total |-> campaign.BudgetTotal,
                   in |-> campaign, todo |-> {}, result |-> "none"]
    /\ created' = created \cup {c}
    /\ UNCHANGED <<budgetDaily, budgetTotal, dbPending, setter, lastDebit, hist>>
    /\ UNCHANGED <<updates, got, debited>>
    /\ UNCHANGED exceptCampaign

\* the INSERT fails: CreateCampaign returns the error
CreateCampaignFails(c, in) ==
    /\ Idle
    /\ c \notin created
    /\ op' = [IdleOp EXCEPT !.pc = "returned", !.kind = "created", !.c = c, !.in = in,
                            !.result = "error"]
    /\ UNCHANGED <<budgetVars, created, updates, got, debited>>
    /\ UNCHANGED exceptCampaign

\* Service.GetCampaign: the row as the table holds it, or "campaign not found"
GetCampaign(c) ==
    /\ Idle
    /\ got' = IF c \in created THEN [found |-> TRUE, campaign |-> rows[c]] ELSE NotFound
    /\ op' = [IdleOp EXCEPT !.pc = "returned", !.kind = "get", !.c = c,
                            !.result = IF c \in created THEN "ok" ELSE "error"]
    /\ UNCHANGED <<budgetVars, created, updates, debited>>
    /\ UNCHANGED exceptCampaign

\* an update that also clears the day's spend
UpdateCampaignClearsSpend(c, status, daily) ==
    LET in == UpdateInput(c, status, daily) IN
    /\ Idle
    /\ Len(updates) < MaxUpdates
    /\ rows' = IF c \in created
               THEN [rows EXCEPT ![c] = Stored(
                       [in EXCEPT !.SpentDaily = 0,
                                  !.SpentTotal = rows[c].SpentTotal,
                                  !.StartDate = rows[c].StartDate])]
               ELSE rows
    /\ op' = [pc |-> "set_daily", kind |-> "updated", c |-> c,
              daily |-> in.BudgetDaily, total |-> in.BudgetTotal,
              in |-> in, todo |-> {}, result |-> "none"]
    /\ UNCHANGED <<budgetDaily, budgetTotal, dbPending, setter, lastDebit, hist>>
    /\ UNCHANGED <<created, updates, got, debited>>
    /\ UNCHANGED exceptCampaign

\* Service.UpdateCampaign up to its UPDATE, which writes status, budgets, bid,
\* rules and end date and leaves spend and start date; no row -> nothing written
UpdateCampaign(c, status, daily) ==
    LET in == UpdateInput(c, status, daily) IN
    /\ Idle
    /\ Len(updates) < MaxUpdates
    /\ rows' = IF c \in created
               THEN [rows EXCEPT ![c] = Stored(
                       [in EXCEPT !.SpentDaily = rows[c].SpentDaily,
                                  !.SpentTotal = rows[c].SpentTotal,
                                  !.StartDate = rows[c].StartDate])]
               ELSE rows
    /\ op' = [pc |-> "set_daily", kind |-> "updated", c |-> c,
              daily |-> in.BudgetDaily, total |-> in.BudgetTotal,
              in |-> in, todo |-> {}, result |-> "none"]
    /\ UNCHANGED <<budgetDaily, budgetTotal, dbPending, setter, lastDebit, hist>>
    /\ UNCHANGED <<created, updates, got, debited>>
    /\ UNCHANGED exceptCampaign

\* Service.UpdateCampaign whose UPDATE fails: the error is returned before
\* SetCampaignBudget and publishCampaignUpdate
UpdateCampaignFails(c) ==
    /\ Idle
    /\ op' = [IdleOp EXCEPT !.pc = "returned", !.kind = "updated", !.c = c,
                            !.result = "error"]
    /\ UNCHANGED <<budgetVars, created, updates, got, debited>>
    /\ UNCHANGED exceptCampaign

\* Service.ResetDailyBudgets, its UPDATE: spent_daily = 0 on every active row
ResetDailyBudgets ==
    /\ Idle
    /\ rows' = [c \in Campaigns |->
                  IF c \in created /\ rows[c].Status = "active"
                  THEN [rows[c] EXCEPT !.SpentDaily = 0] ELSE rows[c]]
    /\ op' = [IdleOp EXCEPT !.pc = "reset_list", !.kind = "reset"]
    /\ UNCHANGED <<budgetDaily, budgetTotal, dbPending, setter, lastDebit, hist>>
    /\ UNCHANGED <<created, updates, got, debited>>
    /\ UNCHANGED exceptCampaign

\* ResetDailyBudgets, its ListActiveCampaigns and the loop over the result: each
\* listed campaign gets SetCampaignBudget(daily, total - spent_total) with the
\* values the query read
ResetNext ==
    /\ op.pc \in {"reset_list", "reset_next"}
    /\ LET todo == IF op.pc = "reset_list"
                   THEN {c \in created : IsListedActive(rows[c], now)}
                   ELSE op.todo
       IN  IF todo = {}
           THEN op' = [op EXCEPT !.pc = "returned", !.todo = {}, !.result = "ok"]
           ELSE \E c \in todo :
                   op' = [op EXCEPT !.pc = "set_daily", !.c = c,
                                    !.daily = rows[c].BudgetDaily,
                                    !.total = rows[c].BudgetTotal - rows[c].SpentTotal,
                                    !.todo = todo \ {c}]
    /\ UNCHANGED <<budgetVars, created, updates, got, debited>>
    /\ UNCHANGED exceptCampaign

\* the call's SetCampaignBudget: the first SET of the pipeline
OpSetDaily ==
    /\ op.pc = "set_daily"
    /\ SetDailyKey(op.c, op.daily, op.total)
    /\ op' = [op EXCEPT !.pc = "set_total"]
    /\ UNCHANGED <<created, updates, got, debited>>
    /\ UNCHANGED exceptCampaign

\* the second SET; a reset goes on with its loop, Create and Update publish
OpSetTotal ==
    /\ op.pc = "set_total"
    /\ SetTotalKey
    /\ op' = [op EXCEPT !.pc = IF op.kind = "reset" THEN "reset_next" ELSE "publish"]
    /\ UNCHANGED <<created, updates, got, debited>>
    /\ UNCHANGED exceptCampaign

\* SetCampaignBudget returns an error, which the service only logs
OpSetFails ==
    /\ op.pc = "set_daily"
    /\ op' = [op EXCEPT !.pc = IF op.kind = "reset" THEN "reset_next" ELSE "publish"]
    /\ UNCHANGED <<budgetVars, created, updates, got, debited>>
    /\ UNCHANGED exceptCampaign

\* publishCampaignUpdate, then the call returns nil
OpPublish ==
    /\ op.pc = "publish"
    /\ updates' = Append(updates, [action |-> op.kind, c |-> op.c, campaign |-> op.in])
    /\ op' = [op EXCEPT !.pc = "returned", !.result = "ok"]
    /\ UNCHANGED <<budgetVars, created, got, debited>>
    /\ UNCHANGED exceptCampaign

\* an amount the auction and the tracking service debit: half a penny
DebitAmounts == {Penny \div 2}

\* a debit of an active campaign by the auction or the tracking service.  The
\* model's cap on spend: a debit that would commit beyond it is not issued.
ServiceDebit(c, amount) ==
    /\ c \in created
    /\ rows[c].Status = "active"
    /\ LET ok == DecrementBudget(budgetDaily[c], budgetTotal[c], amount).allowed IN
         /\ ok => /\ debited[c] + amount <= MaxSpent * Penny
                  /\ Len(dbPending[c]) < MaxPending
         /\ debited' = [debited EXCEPT ![c] = @ + (IF ok THEN amount ELSE 0)]
    /\ CheckAndDecrementBudget(c, amount)
    /\ UNCHANGED <<created, op, updates, got>>
    /\ UNCHANGED exceptCampaign

\* time passes
CampaignTick == now < MaxDay /\ Tick

\* POST /campaigns and GET /campaigns/:id alone, for either campaign id
NextCreate ==
    \/ \E c \in Campaigns, in \in CreateInputs : CreateCampaign(c, in)
    \/ \E c \in Campaigns : CreateCampaignFails(c, GoodInput)
    \/ \E c \in Campaigns : GetCampaign(c)
    \/ OpSetDaily
    \/ OpSetTotal
    \/ OpSetFails
    \/ OpPublish

NextCampaign ==
    \/ \E c \in CampaignIds, in \in CreateInputs : CreateCampaign(c, in)
    \/ \E c \in CampaignIds : CreateCampaignFails(c, GoodInput)
    \/ \E c \in CampaignIds : GetCampaign(c)
    \/ \E c \in CampaignIds, st \in UpdateStatuses, d \in UpdateBudgets :
          UpdateCampaign(c, st, d)
    \/ \E c \in CampaignIds : UpdateCampaignFails(c)
    \/ ResetDailyBudgets
    \/ ResetNext
    \/ OpSetDaily
    \/ OpSetTotal
    \/ OpSetFails
    \/ OpPublish
    \/ \E c \in CampaignIds, a \in DebitAmounts : ServiceDebit(c, a)
    \/ \E c \in CampaignIds : UpdateSpentInDB(c, 1)
    \/ CampaignTick

\* the calls that meet an Update: the update itself, failing or not, the
\* debits of the services and their durable spend updates
NextUpdate ==
    \/ \E c \in CampaignIds, st \in UpdateStatuses, d \in UpdateBudgets :
          UpdateCampaign(c, st, d)
    \/ \E c \in CampaignIds : UpdateCampaignFails(c)
    \/ OpSetDaily
    \/ OpSetTotal
    \/ OpSetFails
    \/ OpPublish
    \/ \E c \in CampaignIds : ServiceDebit(c, Penny)
    \/ \E c \in CampaignIds : UpdateSpentInDB(c, 1)

\* the calls that meet a daily reset: the reset, the debits of the services
\* and their durable spend updates
NextReset ==
    \/ ResetDailyBudgets
    \/ ResetNext
    \/ OpSetDaily
    \/ OpSetTotal
    \/ OpSetFails
    \/ \E c \in CampaignIds : ServiceDebit(c, Penny)
    \/ \E c \in CampaignIds : UpdateSpentInDB(c, 1)

(***************************************************************************)
(* Client.IncrementMetric and Client.GetMetrics.  Time is in days; the     *)
(* hours of a day are not told apart.                                      *)
(***************************************************************************)
MaxDate == 1        \* the date runs over 0..MaxDate
MaxIncr == 2        \* cap on the IncrementMetric calls made

DayKeyDays == 7     \* the day key expires 7 days after its last increment
HourKeyDays == 1    \* the hour key expires 24 h after its last increment

MetricCallers == {1, 2}
CountedKinds  == {"impressions", "clicks"}
Dates         == 0..MaxDate

\* the keys: one per metric kind, campaign and date
Partitions == [kind : CountedKinds, c : Campaigns, date : Dates]

NoMetric == [present |-> FALSE, val |-> 0, expireAt |-> 0]
NoMCall  == [pc |-> "idle", key |-> [kind |-> "impressions", c |-> "c1", date |-> 0],
             result |-> "none"]

MetricAtRest ==
    /\ today = 0
    /\ dayKeys = [p \in Partitions |-> NoMetric]
    /\ hourKeys = [p \in Partitions |-> NoMetric]
    /\ mcall = [k \in MetricCallers |-> NoMCall]
    /\ succeeded = [p \in Partitions |-> 0]

\* a variant of INCR that sets the key to 1
IncrSetsOne(key) == [key EXCEPT !.present = TRUE, !.val = 1]

\* Redis INCR: a missing key counts as 0; the key keeps its expiry
Incr(key) == [key EXCEPT !.present = TRUE, !.val = @ + 1]

\* Redis EXPIRE: nothing on a missing key
Expire(key, at) == IF key.present THEN [key EXCEPT !.expireAt = at] ELSE key

\* Client.GetMetrics: the value of the key, 0 for a missing key
GetMetrics(kind, c, date) ==
    LET key == dayKeys[[kind |-> kind, c |-> c, date |-> date]] IN
    IF key.present THEN key.val ELSE 0

Begun == Cardinality({k \in MetricCallers : mcall[k].pc \notin {"idle", "returned"}})

SumOver(f) ==
    LET RECURSIVE Sum(_)
        Sum(S) == IF S = {} THEN 0
                  ELSE LET p == CHOOSE q \in S : TRUE IN f[p] + Sum(S \ {p})
    IN  Sum(DOMAIN f)

\* Client.IncrementMetric: the keys are named after time.Now(), then the pipeline
\* of four commands is sent; Redis runs them in order, commands of other
\* connections between them
IncrementMetric(k, kind, c) ==
    /\ mcall[k].pc \in {"idle", "returned"}
    /\ SumOver(succeeded) + Begun < MaxIncr
    /\ mcall' = [mcall EXCEPT ![k] =
                   [pc |-> "incr_day", key |-> [kind |-> kind, c |-> c, date |-> today],
                    result |-> "none"]]
    /\ UNCHANGED <<today, dayKeys, hourKeys, succeeded>>
    /\ UNCHANGED exceptMetric

\* the pipeline cannot be sent: IncrementMetric returns the error
IncrementMetricFails(k) ==
    /\ mcall[k].pc = "incr_day"
    /\ mcall' = [mcall EXCEPT ![k].pc = "returned", ![k].result = "error"]
    /\ UNCHANGED <<today, dayKeys, hourKeys, succeeded>>
    /\ UNCHANGED exceptMetric

PipeIncrDay(k) ==
    /\ mcall[k].pc = "incr_day"
    /\ dayKeys' = [dayKeys EXCEPT ![mcall[k].key] = Incr(@)]
    /\ mcall' = [mcall EXCEPT ![k].pc = "expire_day"]
    /\ UNCHANGED <<today, hourKeys, succeeded>>
    /\ UNCHANGED exceptMetric

PipeExpireDay(k) ==
    /\ mcall[k].pc = "expire_day"
    /\ dayKeys' = [dayKeys EXCEPT ![mcall[k].key] = Expire(@, today + DayKeyDays)]
    /\ mcall' = [mcall EXCEPT ![k].pc = "incr_hour"]
    /\ UNCHANGED <<today, hourKeys, succeeded>>
    /\ UNCHANGED exceptMetric

PipeIncrHour(k) ==
    /\ mcall[k].pc = "incr_hour"
    /\ hourKeys' = [hourKeys EXCEPT ![mcall[k].key] = Incr(@)]
    /\ mcall' = [mcall EXCEPT ![k].pc = "expire_hour"]
    /\ UNCHANGED <<today, dayKeys, succeeded>>
    /\ UNCHANGED exceptMetric

\* the last command, then Exec returns nil
PipeExpireHour(k) ==
    /\ mcall[k].pc = "expire_hour"
    /\ hourKeys' = [hourKeys EXCEPT ![mcall[k].key] = Expire(@, today + HourKeyDays)]
    /\ mcall' = [mcall EXCEPT ![k].pc = "returned", ![k].result = "ok"]
    /\ succeeded' = [succeeded EXCEPT ![mcall[k].key] = @ + 1]
    /\ UNCHANGED <<today, dayKeys>>
    /\ UNCHANGED exceptMetric

\* a key whose expiry has come is dropped by Redis
Unexpired(key, date) ==
    IF key.present /\ key.expireAt > 0 /\ key.expireAt <= date THEN NoMetric ELSE key

\* midnight
NextDate ==
    /\ today < MaxDate
    /\ today' = today + 1
    /\ dayKeys' = [p \in Partitions |-> Unexpired(dayKeys[p], today + 1)]
    /\ hourKeys' = [p \in Partitions |-> Unexpired(hourKeys[p], today + 1)]
    /\ UNCHANGED <<mcall, succeeded>>
    /\ UNCHANGED exceptMetric

NextMetric ==
    \/ \E k \in MetricCallers, kind \in CountedKinds, c \in Campaigns :
          IncrementMetric(k, kind, c)
    \/ \E k \in MetricCallers : IncrementMetricFails(k)
    \/ \E k \in MetricCallers : PipeIncrDay(k)
    \/ \E k \in MetricCallers : PipeExpireDay(k)
    \/ \E k \in MetricCallers : PipeIncrHour(k)
    \/ \E k \in MetricCallers : PipeExpireHour(k)
    \/ NextDate

(***************************************************************************)
(* startDailyBudgetResetScheduler: the goroutine main starts.  Time is in  *)
(* hours; hour 0 is a UTC midnight.                                        *)
(***************************************************************************)
MaxClock == 72      \* the time runs over 0..MaxClock hours

HoursPerDay == 24

SchedAtRest ==
    /\ hours = 0
    /\ startedAt = 0
    /\ schedPc = "start"
    /\ tickerNext = 0
    /\ tickerC = FALSE
    /\ wakeAt = 0
    /\ resetsAt = <<>>

\* time.Now().Truncate(24 * time.Hour): the last UTC midnight
Truncate(t) == (t \div HoursPerDay) * HoursPerDay

\* the goroutine starts: time.NewTicker(24 h), then nextReset is computed and
\* the goroutine sleeps until it
SchedStart ==
    /\ schedPc = "start"
    /\ tickerNext' = hours + HoursPerDay
    /\ wakeAt' = Truncate(hours) + HoursPerDay
    /\ schedPc' = "sleeping"
    /\ UNCHANGED <<hours, startedAt, tickerC, resetsAt>>
    /\ UNCHANGED exceptSched

\* the ticker's period has passed: a tick is sent on ticker.C, or dropped when
\* the channel still holds one
TickerFires ==
    /\ schedPc # "start"
    /\ hours = tickerNext
    /\ tickerC' = TRUE
    /\ tickerNext' = tickerNext + HoursPerDay
    /\ UNCHANGED <<hours, startedAt, schedPc, wakeAt, resetsAt>>
    /\ UNCHANGED exceptSched

\* time.Sleep(time.Until(nextReset)) returns: the goroutine enters its loop
SchedWake ==
    /\ schedPc = "sleeping"
    /\ hours >= wakeAt
    /\ schedPc' = "looping"
    /\ UNCHANGED <<hours, startedAt, tickerNext, tickerC, wakeAt, resetsAt>>
    /\ UNCHANGED exceptSched

\* case <-ticker.C: ResetDailyBudgets is called
SchedReset ==
    /\ schedPc = "looping"
    /\ tickerC
    /\ tickerC' = FALSE
    /\ resetsAt' = Append(resetsAt, hours)
    /\ UNCHANGED <<hours, startedAt, schedPc, tickerNext, wakeAt>>
    /\ UNCHANGED exceptSched

\* case <-ctx.Done(): the process shuts down and the goroutine returns
SchedCtxDone ==
    /\ schedPc = "looping"
    /\ schedPc' = "exited"
    /\ UNCHANGED <<hours, startedAt, tickerNext, tickerC, wakeAt, resetsAt>>
    /\ UNCHANGED exceptSched

\* an hour passes, once everything due within the hour has run
Hour ==
    /\ hours < MaxClock
    /\ schedPc # "start"
    /\ hours < tickerNext
    /\ ~(schedPc = "sleeping" /\ hours >= wakeAt)
    /\ ~(schedPc = "looping" /\ tickerC)
    /\ hours' = hours + 1
    /\ UNCHANGED <<startedAt, schedPc, tickerNext, tickerC, wakeAt, resetsAt>>
    /\ UNCHANGED exceptSched

NextSched ==
    \/ SchedStart
    \/ TickerFires
    \/ SchedWake
    \/ SchedReset
    \/ SchedCtxDone
    \/ Hour
(***************************************************************************)
(* Concurrent callers of Service.CheckAndDecrementBudget: the auction       *)
(* engine's commit and the tracking service's debit run in goroutines of    *)
(* their own and meet at the keys of one campaign.                          *)
(***************************************************************************)
MaxRacers == 3      \* callers of CheckAndDecrementBudget that race

RaceCallers  == 1..MaxRacers
RaceCampaign == "c1"
RaceAmounts  == {a * Penny : a \in 1..(MaxAmount + 1)}
RaceBudgets  == {b * Penny : b \in 0..(MaxBudget + 1)}

ReadyRacer == [pc |-> "ready", amount |-> 0, allowed |-> FALSE]

RaceAtRest == racers = [k \in RaceCallers |-> ReadyRacer]

\* caller k's CheckAndDecrementBudget: the script runs, the answer comes back
\* and, on success, updateSpentInDB is started
RaceDebit(k) ==
    /\ racers[k].pc = "ready"
    /\ CheckAndDecrementBudget(RaceCampaign, racers[k].amount)
    /\ racers' = [racers EXCEPT ![k].pc = "done", ![k].allowed = lastDebit'.allowed]
    /\ UNCHANGED <<freqVars, auctionVars, trackVars, campaignVars, schedVars, metricVars,
                   kafkaVars>>

NextRace ==
    \/ \E k \in RaceCallers : RaceDebit(k)
    \/ \E i \in RaceCallers : UpdateSpentInDB(RaceCampaign, i)
    \/ ExpireDailyKey(RaceCampaign)

(***************************************************************************)
(* kafka.Producer.GetWriter: a lookup in the writers map and, on a miss,   *)
(* a new writer stored under the topic.  The map has no lock; the callers  *)
(* are goroutines of their own (one per HTTP request, the tracking         *)
(* workers).  A map access that overlaps another goroutine's map write is  *)
(* a data race: the runtime may stop the process with a fatal error, or    *)
(* the access may go through and see the map before or after the write.    *)
(***************************************************************************)
MaxPublishers == 2      \* goroutines that publish

Publishers == 1..MaxPublishers
Topics     == {"bid-requests", "bid-responses", "impressions"}

IdlePub == [pc |-> "idle", topic |-> "bid-requests", writer |-> 0]

KafkaAtRest ==
    /\ writers = [t \in Topics |-> 0]
    /\ pubs = [k \in Publishers |-> IdlePub]
    /\ producer = [made |-> [t \in Topics |-> 0], raced |-> FALSE, fatal |-> FALSE]

\* another goroutine is in the middle of `p.writers[topic] = writer`
WriteInProgress(k) == \E j \in Publishers \ {k} : pubs[j].pc = "storing"

\* the writers made so far
WritersMade == producer.made["bid-requests"] + producer.made["bid-responses"]
                   + producer.made["impressions"]

\* PublishBidRequest, PublishBidResponse, PublishImpression: GetWriter(topic)
\* is entered
GetWriterBegin(k, topic) ==
    /\ ~producer.fatal
    /\ pubs[k].pc = "idle"
    /\ pubs' = [pubs EXCEPT ![k] = [pc |-> "lookup", topic |-> topic, writer |-> 0]]
    /\ UNCHANGED <<writers, producer>>
    /\ UNCHANGED <<budgetVars, freqVars, auctionVars, trackVars, campaignVars, schedVars,
                   metricVars, raceVars>>

\* `if writer, exists := p.writers[topic]; exists { return writer }`.  seen is
\* what the read finds: the map's entry, or, beside a write in progress, the
\* entry that write is storing for the same topic
GetWriterLookup(k, seen) ==
    /\ ~producer.fatal
    /\ pubs[k].pc = "lookup"
    /\ \/ seen = writers[pubs[k].topic]
       \/ \E j \in Publishers \ {k} :
              /\ pubs[j].pc = "storing"
              /\ pubs[j].topic = pubs[k].topic
              /\ seen = pubs[j].writer
    /\ pubs' = [pubs EXCEPT ![k] = IF seen # 0 THEN [@ EXCEPT !.pc = "done", !.writer = seen]
                                   ELSE [@ EXCEPT !.pc = "making"]]
    /\ producer' = [producer EXCEPT !.raced = @ \/ WriteInProgress(k)]
    /\ UNCHANGED writers
    /\ UNCHANGED <<budgetVars, freqVars, auctionVars, trackVars, campaignVars, schedVars,
                   metricVars, raceVars>>

\* `writer := &kafka.Writer{...}` and the start of `p.writers[topic] = writer`
GetWriterMake(k) ==
    /\ ~producer.fatal
    /\ pubs[k].pc = "making"
    /\ pubs' = [pubs EXCEPT ![k].pc = "storing", ![k].writer = WritersMade + 1]
    /\ producer' = [producer EXCEPT !.made[pubs[k].topic] = @ + 1,
                                    !.raced = @ \/ WriteInProgress(k)]
    /\ UNCHANGED writers
    /\ UNCHANGED <<budgetVars, freqVars, auctionVars, trackVars, campaignVars, schedVars,
                   metricVars, raceVars>>

\* the end of `p.writers[topic] = writer`; GetWriter returns the writer
GetWriterStore(k) ==
    /\ ~producer.fatal
    /\ pubs[k].pc = "storing"
    /\ writers' = [writers EXCEPT ![pubs[k].topic] = pubs[k].writer]
    /\ pubs' = [pubs EXCEPT ![k].pc = "done"]
    /\ UNCHANGED producer
    /\ UNCHANGED <<budgetVars, freqVars, auctionVars, trackVars, campaignVars, schedVars,
                   metricVars, raceVars>>

\* the runtime finds a map access beside a map write ("concurrent map read and
\* map write", "concurrent map writes"): a fatal error, the process ends
MapFatal(k) ==
    /\ ~producer.fatal
    /\ pubs[k].pc \in {"lookup", "making"}
    /\ WriteInProgress(k)
    /\ producer' = [producer EXCEPT !.raced = TRUE, !.fatal = TRUE]
    /\ UNCHANGED <<writers, pubs>>
    /\ UNCHANGED <<budgetVars, freqVars, auctionVars, trackVars, campaignVars, schedVars,
                   metricVars, raceVars>>

\* WriteMessages is over and the goroutine's next publish can begin
PublishReturns(k) ==
    /\ ~producer.fatal
    /\ pubs[k].pc = "done"
    /\ pubs' = [pubs EXCEPT ![k] = IdlePub]
    /\ UNCHANGED <<writers, producer>>
    /\ UNCHANGED <<budgetVars, freqVars, auctionVars, trackVars, campaignVars, schedVars,
                   metricVars, raceVars>>

NextKafka ==
    \/ \E k \in Publishers, topic \in Topics : GetWriterBegin(k, topic)
    \/ \E k \in Publishers, seen \in 0..(3 * MaxPublishers) : GetWriterLookup(k, seen)
    \/ \E k \in Publishers : GetWriterMake(k)
    \/ \E k \in Publishers : GetWriterStore(k)
    \/ \E k \in Publishers : MapFatal(k)
    \/ \E k \in Publishers : PublishReturns(k)

(***************************************************************************)
(* Initial states and specifications                                       *)
(***************************************************************************)
\* nothing else of the service runs
InitBudget ==
    BudgetAtRest /\ FreqAtRest /\ AuctionAtRest /\ TrackAtRest /\ CampaignAtRest /\ SchedAtRest /\ MetricAtRest /\ RaceAtRest /\ KafkaAtRest

\* an active campaign with some frequency rule (or none), nothing counted yet
InitFreq ==
    /\ FreqAtRest /\ AuctionAtRest /\ TrackAtRest /\ CampaignAtRest /\ SchedAtRest /\ MetricAtRest /\ RaceAtRest /\ KafkaAtRest
    /\ budgetDaily = [c \in Campaigns |-> Absent]
    /\ budgetTotal = [c \in Campaigns |-> Absent]
    /\ \E rule \in Rules :
          rows = [c \in Campaigns |->
                    IF c \in FreqCampaigns
                    THEN [BlankRow EXCEPT !.Status = "active", !.FrequencyCapping = rule]
                    ELSE BlankRow]
    /\ dbPending = [c \in Campaigns |-> <<>>]
    /\ setter = IdleSetter
    /\ lastDebit = NoDebit
    /\ hist = [c \in Campaigns |-> NoHist]

\* a campaign in its window, part of its daily budget spent, its Fast-Store
\* counters holding what remains
AuctionRow(status, bidType, bidAmount, spent, rule) ==
    [BlankRow EXCEPT !.Status = status, !.BidType = bidType, !.BidAmount = bidAmount,
                     !.BudgetDaily = 1000 * Penny, !.BudgetTotal = 10000 * Penny,
                     !.SpentDaily = spent, !.SpentTotal = spent,
                     !.FrequencyCapping = rule]

OneImpressionRule == [present |-> TRUE, ImpressionCap |-> 1, ClickCap |-> 0, TimeWindow |-> 1]

InitAuction ==
    /\ \E t1 \in BidTypes, t2 \in BidTypes, b2 \in {100 * Penny, 120 * Penny, 200 * Penny},
          s1 \in {0, 900 * Penny}, s2 \in {0, 900 * Penny},
          rule \in {NoRule, OneImpressionRule}, seen \in 0..1,
          status \in {"active", "paused"} :
          /\ rows = [c \in Campaigns |->
                       IF c = "c1" THEN AuctionRow(status, t1, 100 * Penny, s1, rule)
                       ELSE AuctionRow(status, t2, b2, s2, NoRule)]
          /\ freqKey = [c \in Campaigns |-> [e \in EventTypes |->
                          IF c = "c1" /\ e = "impression" /\ rule.present /\ seen = 1
                          THEN [present |-> TRUE, val |-> 1, ttl |-> TRUE, expireAt |-> 1]
                          ELSE NoCounter]]
          /\ (seen = 1) => rule.present
    /\ budgetDaily = [c \in Campaigns |-> Key(rows[c].BudgetDaily - rows[c].SpentDaily)]
    /\ budgetTotal = [c \in Campaigns |-> Key(rows[c].BudgetTotal - rows[c].SpentTotal)]
    /\ dbPending = [c \in Campaigns |-> <<>>]
    /\ setter = IdleSetter
    /\ lastDebit = NoDebit
    /\ hist = [c \in Campaigns |->
                 [set |-> TRUE, daily |-> budgetDaily[c].val, total |-> budgetTotal[c].val,
                  baseDaily |-> budgetDaily[c].val, debited |-> 0]]
    /\ now = 0
    /\ freqPipe = IdlePipe
    /\ served = [c \in Campaigns |-> <<>>]
    /\ expired = [c \in Campaigns |-> [e \in EventTypes |-> 0]]
    /\ \E floor \in {50 * Penny, 125 * Penny}, device \in {1, 2}, cat \in BOOLEAN,
          user \in {"", "u1"} :
          request = [Imp |-> <<[BidFloor |-> floor]>>, DeviceType |-> device, SiteCat |-> cat,
                     UserID |-> user, Geo |-> [present |-> FALSE, Country |-> ""]]
    /\ wall = [weekday |-> 1, hour |-> 12, minute |-> 0]
    /\ apc = "idle"
    /\ deadlineFired = FALSE
    /\ task = [c \in Campaigns |-> "none"]
    /\ bidChan = <<>>
    /\ ranked = <<>>
    /\ secondPrice = 0
    /\ finalPrice = 0
    /\ outcome = "none"
    /\ topics = <<>>
    /\ TrackAtRest /\ CampaignAtRest /\ SchedAtRest /\ MetricAtRest /\ RaceAtRest /\ KafkaAtRest

\* a campaign with a base bid of 0.20 and 0.30 left of its daily budget
TrackRow(status, bidType, rule) ==
    [BlankRow EXCEPT !.Status = status, !.BidType = bidType, !.BidAmount = 20 * Penny,
                     !.BudgetDaily = 30 * Penny, !.BudgetTotal = 1000 * Penny,
                     !.FrequencyCapping = rule]

\* after Start: c1 is active, c2 is paused
InitTrack ==
    /\ TrackAtRest /\ FreqAtRest /\ AuctionAtRest /\ CampaignAtRest /\ SchedAtRest /\ MetricAtRest /\ RaceAtRest /\ KafkaAtRest
    /\ \E bidType \in BidTypes, rule \in {NoRule, OneImpressionRule} :
          rows = [c \in Campaigns |->
                    IF c = "c1" THEN TrackRow("active", bidType, rule)
                    ELSE TrackRow("paused", "CPC", NoRule)]
    /\ budgetDaily = [c \in Campaigns |-> Key(rows[c].BudgetDaily)]
    /\ budgetTotal = [c \in Campaigns |-> Key(rows[c].BudgetTotal)]
    /\ dbPending = [c \in Campaigns |-> <<>>]
    /\ setter = IdleSetter
    /\ lastDebit = NoDebit
    /\ hist = [c \in Campaigns |->
                 [set |-> TRUE, daily |-> budgetDaily[c].val, total |-> budgetTotal[c].val,
                  baseDaily |-> budgetDaily[c].val, debited |-> 0]]

\* an empty campaigns table and an empty Fast-Store
InitCampaign ==
    /\ BudgetAtRest /\ FreqAtRest /\ AuctionAtRest /\ TrackAtRest /\ SchedAtRest /\ MetricAtRest /\ RaceAtRest /\ KafkaAtRest
    /\ created = {}
    /\ op = IdleOp
    /\ updates = <<>>
    /\ got = NotFound
    /\ debited = [c \in Campaigns |-> 0]

\* the process starts at some hour of a day
InitSched ==
    /\ BudgetAtRest /\ FreqAtRest /\ AuctionAtRest /\ TrackAtRest /\ CampaignAtRest
    /\ MetricAtRest /\ RaceAtRest /\ KafkaAtRest
    /\ startedAt \in 0..(HoursPerDay - 1)
    /\ hours = startedAt
    /\ schedPc = "start"
    /\ tickerNext = 0
    /\ tickerC = FALSE
    /\ wakeAt = 0
    /\ resetsAt = <<>>

\* no metric has been counted
InitMetric ==
    /\ BudgetAtRest /\ FreqAtRest /\ AuctionAtRest /\ TrackAtRest /\ CampaignAtRest
    /\ SchedAtRest /\ MetricAtRest /\ RaceAtRest /\ KafkaAtRest

SpecBudget == InitBudget /\ [][NextBudget]_vars

SpecFreq == InitFreq /\ [][NextFreq]_vars

SpecAuction == InitAuction /\ [][NextAuction]_vars

SpecTrack == InitTrack /\ [][NextTrack]_vars


SpecCampaign == InitCampaign /\ [][NextCampaign]_vars

SpecSched == InitSched /\ [][NextSched]_vars

\* the campaign service with every call and goroutine that can run eventually run
SpecCampaignLive == SpecCampaign /\ WF_vars(NextCampaign)

SpecMetric == InitMetric /\ [][NextMetric]_vars

SpecCreate == InitCampaign /\ [][NextCreate]_vars

\* a campaign with budgets set and nothing spent, and callers about to debit it
InitRace ==
    /\ FreqAtRest /\ AuctionAtRest /\ TrackAtRest /\ CampaignAtRest /\ SchedAtRest
    /\ MetricAtRest /\ KafkaAtRest
    /\ \E daily \in RaceBudgets, total \in RaceBudgets :
          /\ rows = [c \in Campaigns |->
                       IF c = RaceCampaign
                       THEN [BlankRow EXCEPT !.Status = "active", !.BudgetDaily = daily,
                                             !.BudgetTotal = total]
                       ELSE BlankRow]
          /\ budgetDaily = [c \in Campaigns |-> IF c = RaceCampaign THEN Key(daily) ELSE Absent]
          /\ budgetTotal = [c \in Campaigns |-> IF c = RaceCampaign THEN Key(total) ELSE Absent]
          /\ hist = [c \in Campaigns |->
                       IF c = RaceCampaign
                       THEN [set |-> TRUE, daily |-> daily, total |-> total,
                             baseDaily |-> daily, debited |-> 0]
                       ELSE NoHist]
    /\ dbPending = [c \in Campaigns |-> <<>>]
    /\ setter = IdleSetter
    /\ lastDebit = NoDebit
    /\ racers \in [RaceCallers -> [pc : {"ready"}, amount : RaceAmounts, allowed : {FALSE}]]

SpecRace == InitRace /\ [][NextRace]_vars

\* the running tracking service: a worker blocked in its select takes an event
\* that stays in the buffer, and the batch processor's 5 s ticker fires
SpecTrackLive ==
    /\ InitTrack /\ [][NextTrackUp]_vars
    /\ WF_vars(WorkerProcess) /\ WF_vars(BatchTick)

\* one auction for a known user, beside the TrackImpression calls of that user
\* on campaign c1, which carries an impression cap (or none)
CappedRules == {NoRule} \cup
               [present : {TRUE}, ImpressionCap : 0..MaxCap, ClickCap : {0},
                TimeWindow : {MaxWindow}]

InitCapped ==
    /\ \E rule \in CappedRules :
          rows = [c \in Campaigns |->
                    IF c = "c1" THEN AuctionRow("active", "CPM", 200 * Penny, 0, rule)
                    ELSE AuctionRow("active", "CPM", 100 * Penny, 0, NoRule)]
    /\ budgetDaily = [c \in Campaigns |-> Key(rows[c].BudgetDaily - rows[c].SpentDaily)]
    /\ budgetTotal = [c \in Campaigns |-> Key(rows[c].BudgetTotal - rows[c].SpentTotal)]
    /\ dbPending = [c \in Campaigns |-> <<>>]
    /\ setter = IdleSetter
    /\ lastDebit = NoDebit
    /\ hist = [c \in Campaigns |->
                 [set |-> TRUE, daily |-> budgetDaily[c].val, total |-> budgetTotal[c].val,
                  baseDaily |-> budgetDaily[c].val, debited |-> 0]]
    /\ FreqAtRest
    /\ request = [Imp |-> <<[BidFloor |-> 50 * Penny]>>, DeviceType |-> 2, SiteCat |-> FALSE,
                  UserID |-> "u1", Geo |-> [present |-> FALSE, Country |-> ""]]
    /\ wall = [weekday |-> 1, hour |-> 12, minute |-> 0]
    /\ apc = "idle"
    /\ deadlineFired = FALSE
    /\ task = [c \in Campaigns |-> "none"]
    /\ bidChan = <<>>
    /\ ranked = <<>>
    /\ secondPrice = 0
    /\ finalPrice = 0
    /\ outcome = "none"
    /\ topics = <<>>
    /\ TrackAtRest /\ CampaignAtRest /\ SchedAtRest /\ MetricAtRest /\ RaceAtRest /\ KafkaAtRest

NextCapped ==
    \/ NextAuction
    \/ TrackIncr("c1", "impression")
    \/ TrackExpire
    \/ IncrementFrequencyCapNoRule("c1", "impression")
    \/ Tick

SpecCapped == InitCapped /\ [][NextCapped]_vars

SpecWindow == InitFreq /\ [][NextWindow]_vars

\* one auction over a campaign with targeting rules, for requests with and
\* without a geo descriptor
TargetRules == {NoTargeting} \cup
               [present : {TRUE}, GeoTargeting : {{}, {"US", "CA"}},
                DeviceTypes : {{}, {"1", "2"}},
                DayParting : {{}, {[DayOfWeek |-> 1, StartHour |-> 9, EndHour |-> 17]},
                              {[DayOfWeek |-> 2, StartHour |-> 9, EndHour |-> 17]}}]

RequestGeos == {[present |-> FALSE, Country |-> ""],
                [present |-> TRUE, Country |-> "US"],
                [present |-> TRUE, Country |-> "UK"]}

InitTarget ==
    /\ \E rules \in TargetRules :
          rows = [c \in Campaigns |->
                    IF c = "c1"
                    THEN [AuctionRow("active", "CPM", 200 * Penny, 0, NoRule)
                            EXCEPT !.TargetingRules = rules]
                    ELSE AuctionRow("active", "CPM", 100 * Penny, 0, NoRule)]
    /\ budgetDaily = [c \in Campaigns |-> Key(rows[c].BudgetDaily - rows[c].SpentDaily)]
    /\ budgetTotal = [c \in Campaigns |-> Key(rows[c].BudgetTotal - rows[c].SpentTotal)]
    /\ dbPending = [c \in Campaigns |-> <<>>]
    /\ setter = IdleSetter
    /\ lastDebit = NoDebit
    /\ hist = [c \in Campaigns |->
                 [set |-> TRUE, daily |-> budgetDaily[c].val, total |-> budgetTotal[c].val,
                  baseDaily |-> budgetDaily[c].val, debited |-> 0]]
    /\ FreqAtRest
    /\ \E geo \in RequestGeos, device \in {1, 3}, user \in {"", "u1"} :
          request = [Imp |-> <<[BidFloor |-> 50 * Penny]>>, DeviceType |-> device, SiteCat |-> FALSE,
                     UserID |-> user, Geo |-> geo]
    /\ wall = [weekday |-> 1, hour |-> 12, minute |-> 0]
    /\ apc = "idle"
    /\ deadlineFired = FALSE
    /\ task = [c \in Campaigns |-> "none"]
    /\ bidChan = <<>>
    /\ ranked = <<>>
    /\ secondPrice = 0
    /\ finalPrice = 0
    /\ outcome = "none"
    /\ topics = <<>>
    /\ TrackAtRest /\ CampaignAtRest /\ SchedAtRest /\ MetricAtRest /\ RaceAtRest /\ KafkaAtRest

SpecTarget == InitTarget /\ [][NextAuction]_vars

\* the start of one auction over campaign rows c1 = row1 and c2 = row2, budget
\* counters holding what remains, no frequency counters, for the request req
\* at the time clock
AuctionInit(row1, row2, req, clock) ==
    /\ rows = [c \in Campaigns |-> IF c = "c1" THEN row1 ELSE row2]
    /\ budgetDaily = [c \in Campaigns |-> Key(rows[c].BudgetDaily - rows[c].SpentDaily)]
    /\ budgetTotal = [c \in Campaigns |-> Key(rows[c].BudgetTotal - rows[c].SpentTotal)]
    /\ dbPending = [c \in Campaigns |-> <<>>]
    /\ setter = IdleSetter
    /\ lastDebit = NoDebit
    /\ hist = [c \in Campaigns |->
                 [set |-> TRUE, daily |-> budgetDaily[c].val, total |-> budgetTotal[c].val,
                  baseDaily |-> budgetDaily[c].val, debited |-> 0]]
    /\ FreqAtRest
    /\ request = req
    /\ wall = clock
    /\ apc = "idle"
    /\ deadlineFired = FALSE
    /\ task = [c \in Campaigns |-> "none"]
    /\ bidChan = <<>>
    /\ ranked = <<>>
    /\ secondPrice = 0
    /\ finalPrice = 0
    /\ outcome = "none"
    /\ topics = <<>>
    /\ TrackAtRest /\ CampaignAtRest /\ SchedAtRest /\ MetricAtRest /\ RaceAtRest /\ KafkaAtRest

\* day-part entries: Monday 9 to 17, an empty interval, another day
DayPartEntries == {[DayOfWeek |-> 1, StartHour |-> 9, EndHour |-> 17],
                   [DayOfWeek |-> 1, StartHour |-> 9, EndHour |-> 9],
                   [DayOfWeek |-> 2, StartHour |-> 0, EndHour |-> 23]}

\* time.Now() of the auction: Monday 08:59, 09:00, 16:59, 17:00, Tuesday noon,
\* Sunday 09:00
Walls == {[weekday |-> 1, hour |-> 8, minute |-> 59],
          [weekday |-> 1, hour |-> 9, minute |-> 0],
          [weekday |-> 1, hour |-> 16, minute |-> 59],
          [weekday |-> 1, hour |-> 17, minute |-> 0],
          [weekday |-> 2, hour |-> 12, minute |-> 0],
          [weekday |-> 0, hour |-> 9, minute |-> 0]}

InitDayPart ==
    \E parts \in SUBSET DayPartEntries, devices \in {{}, {"1"}}, clock \in Walls,
       device \in {1, 2} :
        AuctionInit([AuctionRow("active", "CPM", 200 * Penny, 0, NoRule)
                       EXCEPT !.TargetingRules =
                           [present |-> TRUE, GeoTargeting |-> {},
                            DeviceTypes |-> devices, DayParting |-> parts]],
                    AuctionRow("active", "CPM", 100 * Penny, 0, NoRule),
                    [Imp |-> <<[BidFloor |-> 50 * Penny]>>, DeviceType |-> device, SiteCat |-> FALSE,
                     UserID |-> "u1", Geo |-> [present |-> FALSE, Country |-> ""]],
                    clock)

SpecDayPart == InitDayPart /\ [][NextAuction]_vars

\* campaign c1 exists and is active, with budgets 0.02 / 0.03, nothing or a
\* penny spent and accounted for, and its counters at what remains
InitUpdate ==
    /\ FreqAtRest /\ AuctionAtRest /\ TrackAtRest /\ SchedAtRest /\ MetricAtRest /\ RaceAtRest /\ KafkaAtRest
    /\ \E spent \in {0, Penny} :
          /\ rows = [c \in Campaigns |->
                       IF c \in CampaignIds
                       THEN [GoodInput EXCEPT !.SpentDaily = spent, !.SpentTotal = spent]
                       ELSE BlankRow]
          /\ budgetDaily = [c \in Campaigns |->
                              IF c \in CampaignIds THEN Key(2 * Penny - spent) ELSE Absent]
          /\ budgetTotal = [c \in Campaigns |->
                              IF c \in CampaignIds THEN Key(3 * Penny - spent) ELSE Absent]
          /\ hist = [c \in Campaigns |->
                       IF c \in CampaignIds
                       THEN [set |-> TRUE, daily |-> 2 * Penny, total |-> 3 * Penny,
                             baseDaily |-> 2 * Penny, debited |-> spent]
                       ELSE NoHist]
          /\ debited = [c \in Campaigns |-> IF c \in CampaignIds THEN spent ELSE 0]
    /\ dbPending = [c \in Campaigns |-> <<>>]
    /\ setter = IdleSetter
    /\ lastDebit = NoDebit
    /\ created = CampaignIds
    /\ op = IdleOp
    /\ updates = <<>>
    /\ got = NotFound

SpecUpdate == InitUpdate /\ [][NextUpdate]_vars

SpecReset == InitUpdate /\ [][NextReset]_vars

SpecTrackStop == InitTrack /\ [][NextTrackStop]_vars

\* the impression lists a decoded bid request can carry: none, or one slot
\* with a floor of 0.50 or of 1.50
ImpLists == {<<>>, <<[BidFloor |-> 50 * Penny]>>, <<[BidFloor |-> 150 * Penny]>>}

\* one auction over two active campaigns without targeting rules, for a
\* request with or without impressions and with or without a user
InitNoImp ==
    \E imp \in ImpLists, user \in {"", "u1"}, rule \in {NoRule, OneImpressionRule} :
        AuctionInit(AuctionRow("active", "CPM", 200 * Penny, 0, rule),
                    AuctionRow("active", "CPM", 100 * Penny, 0, NoRule),
                    [Imp |-> imp, DeviceType |-> 2, SiteCat |-> FALSE,
                     UserID |-> user, Geo |-> [present |-> FALSE, Country |-> ""]],
                    [weekday |-> 1, hour |-> 12, minute |-> 0])

SpecNoImp == InitNoImp /\ [][NextAuction]_vars

\* the producer as NewProducer leaves it, and nothing else of the service
InitKafka == InitBudget

SpecKafka == InitKafka /\ [][NextKafka]_vars
(***************************************************************************)
(* Properties of the budget store                                          *)
(***************************************************************************)
SetInFlight(c) == setter.pc = "daily_set" /\ setter.c = c

\* C1: once SetBudgets(c, d, t) has completed and until the next SetBudgets on
\* c starts, whatever the interleaving of debits of non-negative amounts, both
\* Fast-Store counters of c are >= 0 in every reachable state and the amounts of
\* the committed debits sum to at most d and at most t.
C1_BudgetNeverOverspent ==
    \A c \in Campaigns :
        /\ budgetDaily[c].val >= 0
        /\ budgetTotal[c].val >= 0
        /\ (hist[c].set /\ ~SetInFlight(c)) =>
               /\ hist[c].debited <= hist[c].daily
               /\ hist[c].debited <= hist[c].total

\* the daily budget has been debited down to exactly 0 and a further debit of a
\* positive amount has been refused
C1_Witness ==
    /\ hist["c1"].set /\ ~SetInFlight("c1")
    /\ hist["c1"].daily > 0
    /\ hist["c1"].debited = hist["c1"].daily
    /\ budgetDaily["c1"] = Key(0)
    /\ lastDebit.amount > 0 /\ ~lastDebit.allowed

DebitStep == lastDebit'.turn # lastDebit.turn

TryDebitEffect ==
    LET c  == lastDebit'.c
        a  == lastDebit'.amount
        ok == lastDebit'.allowed
    IN  /\ ok <=> /\ budgetDaily[c].present /\ budgetTotal[c].present
                  /\ budgetDaily[c].val >= a /\ budgetTotal[c].val >= a
        /\ ok  => /\ budgetDaily'[c] = Key(budgetDaily[c].val - a)
                  /\ budgetTotal'[c] = Key(budgetTotal[c].val - a)
        /\ ~ok => /\ budgetDaily' = budgetDaily
                  /\ budgetTotal' = budgetTotal

\* what has been taken off each counter since the last completed SetBudgets
DebitsPaired ==
    \A c \in Campaigns :
        (hist[c].set /\ ~SetInFlight(c)) =>
            /\ budgetTotal[c] = Key(hist[c].total - hist[c].debited)
            /\ budgetDaily[c].present =>
                   budgetDaily[c] = Key(hist[c].baseDaily - hist[c].debited)

\* C2: TryDebit(c, amount) commits iff both counters of c exist and are >=
\* amount; a commit takes exactly amount off both counters and a refusal changes
\* neither; in no state has only one of the two counters been decremented.
C2_TryDebitAtomic == [][DebitStep => TryDebitEffect]_vars /\ []DebitsPaired

\* a debit of a positive amount has committed and both counters show it
C2_Witness ==
    /\ lastDebit.allowed /\ lastDebit.amount = Penny
    /\ hist["c1"].set /\ ~SetInFlight("c1")
    /\ hist["c1"].debited = Penny
    /\ budgetDaily["c1"] = Key(hist["c1"].baseDaily - Penny)
    /\ budgetTotal["c1"] = Key(hist["c1"].total - Penny)

(***************************************************************************)
(* Properties of frequency capping                                         *)
(***************************************************************************)
ImpressionCapOf(c) == IF rows[c].FrequencyCapping.present
                      THEN rows[c].FrequencyCapping.ImpressionCap ELSE 0

\* the auctions that passed the impression cap check of c in the window
\* starting at t
ServedInWindow(c, t) ==
    {i \in 1..Len(served[c]) :
        t <= served[c][i] /\ served[c][i] < t + rows[c].FrequencyCapping.TimeWindow}

\* C3: with an impression cap C > 0, no more than C auctions for the user pass
\* the cap check of the campaign within any window of the rule's length,
\* whatever the interleaving of auctions and TrackImpression / TrackClick calls.
C3_CapRespected ==
    \A c \in Campaigns :
        ImpressionCapOf(c) > 0 =>
            \A t \in 0..MaxTime : Cardinality(ServedInWindow(c, t)) <= ImpressionCapOf(c)


(***************************************************************************)
(* Properties of the auction                                               *)
(***************************************************************************)
Clamp(x, lo, hi) == IF x < lo THEN lo ELSE IF x > hi THEN hi ELSE x

Answered == outcome = "bid"

\* C4: an auction that returns a bid response clears at a price between the
\* request's bid floor and the winner's bid price, namely at
\* clamp(second price + 0.01, bid floor, winner's price).
C4_ClearedPriceInRange ==
    Answered =>
        /\ request.Imp[1].BidFloor <= finalPrice
        /\ finalPrice <= ranked[1].Price
        /\ finalPrice = Clamp(secondPrice + Penny, request.Imp[1].BidFloor, ranked[1].Price)

\* two bids, and the price is the second price plus 0.01, strictly between the
\* floor and the winner's bid
C4_Witness ==
    /\ Answered
    /\ Len(ranked) = 2
    /\ finalPrice = ranked[2].Price + Penny
    /\ request.Imp[1].BidFloor < finalPrice
    /\ finalPrice < ranked[1].Price

C6_NoFailureSurfaced == apc = "done" => outcome \in {"bid", "nobid"}

\* C7: once the deadline has fired, no eligibility task still in progress
\* contributes an entry, with or without a user id, and the request is not
\* answered with a bid built on such an entry.
C7_DeadlineAbandonsTasks ==
    /\ \A i \in 1..Len(bidChan) : ~bidChan[i].late
    /\ Answered => \A i \in 1..Len(ranked) : ~ranked[i].late

(***************************************************************************)
(* Properties of the tracking service                                      *)
(***************************************************************************)
\* C8: after Stop and cancel, when the process has ended, every event accepted
\* before the stop is a row of tracking_events.
C8_StopWritesAccepted == mainPc = "exited" => accepted \subseteq persisted

Decided(k) == k.pc \notin {"idle", "validate", "debit"}

PerformancePriced(k) ==
    /\ k.c \in Campaigns
    /\ \/ rows[k.c].BidType = "CPC" /\ k.Type = "click"
       \/ rows[k.c].BidType = "CPA" /\ k.Type = "conversion"

FailsValidation(k) ==
    \/ k.c = "nil"
    \/ k.c \notin Campaigns
    \/ rows[k.c].Status # "active"

\* C9 as stated: a Track call issues at most one debit, and exactly one, of the
\* campaign's base bid, iff it is a click on a CPC campaign or a conversion on a
\* CPA campaign.
C9_DebitIffPerformancePriced ==
    /\ call.debits <= 1
    /\ Decided(call) =>
          /\ call.debits = 1 <=> PerformancePriced(call)
          /\ call.debits = 1 => call.amount = rows[call.c].BidAmount

\* C9: a Track call issues at most one debit, and exactly one, of the campaign's
\* base bid, iff it passes validation (the campaign exists and is active) and is
\* a click on a CPC campaign or a conversion on a CPA campaign.
C9_DebitIffValidPerformancePriced ==
    /\ call.debits <= 1
    /\ Decided(call) =>
          /\ call.debits = 1 <=> (~FailsValidation(call) /\ PerformancePriced(call))
          /\ call.debits = 1 => call.amount = rows[call.c].BidAmount

\* a conversion on the active CPA campaign, arriving with another value, has
\* been debited once at the base bid and accepted
C9_Witness ==
    /\ call.pc = "returned" /\ call.result = "ok"
    /\ call.Type = "conversion"
    /\ rows[call.c].BidType = "CPA"
    /\ call.debits = 1
    /\ call.amount = 20 * Penny
    /\ lastDebit.allowed /\ lastDebit.amount = 20 * Penny

DebitRefused(k) == k.debits = 1 /\ ~lastDebit.allowed

\* C10: a Track call that fails validation, or whose debit is refused, returns
\* an error, and its event is in no metric and no frequency counter, is not in
\* the buffer or the batch, is not a row, and has not been published.
C10_FailedTrackLeavesNoTrace ==
    (Decided(call) /\ (FailsValidation(call) \/ DebitRefused(call))) =>
        /\ call.pc = "returned" /\ call.result = "error"
        /\ metrics = call.metrics0
        /\ freqKey = call.freq0
        /\ call.id \notin Ids(eventBuffer) \cup Ids(batch) \cup persisted \cup accepted
        /\ ~call.published

\* a second click on the CPC campaign has been refused for lack of budget: the
\* first is counted, the second is not
C10_Witness ==
    /\ call.pc = "returned" /\ call.result = "error"
    /\ call.Type = "click" /\ call.c = "c1"
    /\ DebitRefused(call)
    /\ metrics["c1"]["clicks"].day = 1

\* C17: a Track call that has passed validation and debit returns success, with
\* its event counted and published, whether or not the durable write of the
\* event succeeds, both when the event was enqueued and when the call wrote it
\* itself because the buffer was full.  (A call that met the closed buffer is
\* left aside.)
C17_WriteFailureOnlyLogged ==
    ( /\ call.pc = "returned"
      /\ Decided(call) /\ ~FailsValidation(call) /\ ~DebitRefused(call)
      /\ call.result # "panic" )
    => (call.result = "ok" /\ call.counted /\ call.published)

(***************************************************************************)
(* Properties of the campaign service                                      *)
(***************************************************************************)
\* what the validation of a new campaign is to reject
InvalidCampaign(in) ==
    \/ in.BudgetDaily <= 0
    \/ in.BudgetTotal < in.BudgetDaily
    \/ in.EndDate.present /\ in.StartDate >= in.EndDate.val
    \/ in.BidAmount < 0

\* C11: a Create whose daily budget is <= 0, whose total budget is below the
\* daily one, whose start is not before its end or whose bid amount is < 0
\* fails: it persists no row, leaves the Fast-Store as it was and publishes
\* no event.
C11_InvalidCreateRejected ==
    (op.kind = "created" /\ InvalidCampaign(op.in)) =>
        /\ op.c \notin created
        /\ budgetDaily[op.c] = Absent /\ budgetTotal[op.c] = Absent
        /\ updates = <<>>
        /\ op.pc = "returned" => op.result = "error"

\* C12: in every reachable state the durable row of every campaign has
\* 0 <= spent_daily <= budget_daily and 0 <= spent_total <= budget_total,
\* whatever the interleaving of debits, their durable spend updates, Update and
\* ResetDailyBudgets.
C12_DurableSpendWithinBudget ==
    \A c \in created :
        /\ 0 <= rows[c].SpentDaily /\ rows[c].SpentDaily <= rows[c].BudgetDaily
        /\ 0 <= rows[c].SpentTotal /\ rows[c].SpentTotal <= rows[c].BudgetTotal

(***************************************************************************)
(* Properties of the daily reset task                                      *)
(***************************************************************************)
\* the first UTC midnight after the process started
FirstMidnight == Truncate(startedAt) + HoursPerDay

\* C13: the daily reset task performs its first ResetDailyBudgets at the first
\* UTC midnight after the process started, whatever the start time, and one at
\* each following UTC midnight: every reset falls on a midnight, the i-th on the
\* i-th midnight after the start, and no midnight passes without its reset
\* while the task runs.
C13_ResetsAtMidnight ==
    /\ \A i \in 1..Len(resetsAt) :
          resetsAt[i] = FirstMidnight + (i - 1) * HoursPerDay
    /\ (schedPc # "exited" /\ hours > FirstMidnight) => Len(resetsAt) >= 1

\* C14: every committed debit of amount a is eventually added, exactly once, to
\* the durable spent_total (and spent_daily), so that whatever has been debited
\* is either still to be added by a scheduled update or in the durable spend,
\* and once the updates have run the durable spend is the total debited; a
\* refused debit schedules no update.
C14_DurableSpendIsDebited ==
    \A c \in created : rows[c].SpentTotal + SumSeq(dbPending[c]) = debited[c]

(***************************************************************************)
(* Properties of the winner selection                                      *)
(***************************************************************************)
\* the position in the bid list of the first entry with the highest score
FirstHighest(entries) ==
    CHOOSE i \in 1..Len(entries) :
        /\ \A j \in 1..Len(entries) : entries[j].Score <= entries[i].Score
        /\ \A j \in 1..(i - 1) : entries[j].Score < entries[i].Score

\* C15: selectWinner returns the entry with the highest score and, of several
\* entries with that score, the one inserted first into the bid list; an empty
\* bid list yields no winner and a second price of 0.
C15_FirstHighestWins ==
    /\ ranked # <<>> => ranked[1] = bidChan[FirstHighest(bidChan)]
    /\ (apc = "done" /\ bidChan = <<>>) => (ranked = <<>> /\ secondPrice = 0)

\* C16: the second price is the price of the second-ranked entry when there
\* are at least two entries and 0.8 x the winner's price when there is one.
\* Two CPM bids of 1.00 and 2.00 against a floor of 0.50 give the winner 2.00,
\* the second price 1.00 and the cleared price 1.01; a lone bid of 1.00 against
\* a floor of 0.50 clears at 0.81.
C16_SecondPriceRule ==
    ranked # <<>> =>
        /\ Len(ranked) >= 2 => secondPrice = ranked[2].Price
        /\ Len(ranked) = 1 => secondPrice * 10 = ranked[1].Price * 8
        /\ ( /\ Len(ranked) = 2 /\ request.Imp[1].BidFloor = 50 * Penny
             /\ {ranked[1].Price, ranked[2].Price} = {100 * Penny, 200 * Penny}
             /\ \A i \in 1..2 : rows[ranked[i].c].BidType = "CPM" )
           => /\ ranked[1].Price = 200 * Penny
              /\ secondPrice = 100 * Penny
              /\ finalPrice = 101 * Penny
        /\ (Len(ranked) = 1 /\ request.Imp[1].BidFloor = 50 * Penny /\ ranked[1].Price = 100 * Penny)
           => finalPrice = 81 * Penny

\* the auction of the two CPM bids of 1.00 and 2.00 has answered at 1.01
C16_Witness ==
    /\ Answered
    /\ Len(ranked) = 2 /\ request.Imp[1].BidFloor = 50 * Penny
    /\ ranked[1].Price = 200 * Penny /\ ranked[2].Price = 100 * Penny
    /\ \A i \in 1..2 : rows[ranked[i].c].BidType = "CPM"
    /\ secondPrice = 100 * Penny
    /\ finalPrice = 101 * Penny

\* the budget of an active campaign is used up, or its end date is reached
Exhausted(c) ==
    /\ c \in created
    /\ rows[c].Status = "active"
    /\ \/ rows[c].SpentDaily >= rows[c].BudgetDaily
       \/ rows[c].SpentTotal >= rows[c].BudgetTotal
       \/ rows[c].EndDate.present /\ rows[c].EndDate.val <= now

\* C18: an active campaign whose daily or total budget is exhausted, or whose
\* end date is reached, eventually has status complete.
C18_ExhaustedBecomesComplete ==
    \A c \in CampaignIds : Exhausted(c) ~> (rows[c].Status = "complete")

(***************************************************************************)
(* Properties of the metric counters                                       *)
(***************************************************************************)
\* the calls in flight on a key whose INCR of the day key has run
Incremented(p) ==
    Cardinality({k \in MetricCallers :
                   mcall[k].key = p /\ mcall[k].pc \in {"expire_day", "incr_hour", "expire_hour"}})

\* C19: IncrementMetric is additive.  For every kind, campaign and date,
\* GetMetric reads the number of IncrementMetric calls on that key that have
\* succeeded (plus those in flight that have already incremented it), whatever
\* the interleaving: N after N successful calls, 0 on a key never incremented,
\* and nothing from the increments of another kind, campaign or date.
C19_MetricAdditive ==
    \A p \in Partitions : GetMetrics(p.kind, p.c, p.date) = succeeded[p] + Incremented(p)

\* both callers have incremented the same key and returned nil: the key reads
\* 2 and every other key reads 0
C19_Witness ==
    \E p \in Partitions :
        /\ \A k \in MetricCallers : mcall[k].key = p /\ mcall[k].result = "ok"
        /\ succeeded[p] = 2
        /\ GetMetrics(p.kind, p.c, p.date) = 2
        /\ \A q \in Partitions \ {p} : GetMetrics(q.kind, q.c, q.date) = 0

(***************************************************************************)
(* Properties of Create followed by Get                                    *)
(***************************************************************************)
\* the campaign CreateCampaign was given for c, with the status and the spend
\* the server assigns, as the "created" update carries it
CreatedAs(c) ==
    LET i == CHOOSE j \in 1..Len(updates) :
                 updates[j].action = "created" /\ updates[j].c = c
    IN  updates[i].campaign

HasCreated(c) ==
    \E j \in 1..Len(updates) : updates[j].action = "created" /\ updates[j].c = c

GotCreated == op.kind = "get" /\ op.pc = "returned" /\ got.found /\ HasCreated(op.c)

\* once SetCampaignBudget has gone through, the Fast-Store counters of a created
\* campaign are the budgets given
CountersAreBudgets ==
    \A c \in Campaigns :
        (HasCreated(c) /\ hist[c].set) =>
            /\ budgetDaily[c] = Key(CreatedAs(c).BudgetDaily)
            /\ budgetTotal[c] = Key(CreatedAs(c).BudgetTotal)

NoneListed == \A c \in Campaigns : ~IsListedActive(rows[c], now)

\* the step in which CheckAndDecrementBudget answered no
CommitRefused == apc = "committing" /\ lastDebit' # lastDebit /\ ~lastDebit'.allowed

\* C21: RunAuction answers no-bid when ListActiveCampaigns returns no campaign,
\* when no bid entry survives, and when the winner's debit is refused; a
\* refused debit changes no budget counter; and an auction that answered
\* no-bid has recorded and published no AuctionResult.
C21_NoBidLeavesNoTrace ==
    /\ [](outcome = "nobid" =>
            (\A i \in 1..Len(topics) : topics[i] \notin {"auction-results", "bid-responses"}))
    /\ [][ /\ (apc = "listing" /\ apc' # "listing" /\ outcome' # "error" /\ NoneListed)
                => (outcome' = "nobid" /\ apc' = "done")
           /\ (apc = "collecting" /\ apc' # "collecting" /\ bidChan = <<>>)
                => (outcome' = "nobid" /\ apc' = "done")
           /\ CommitRefused
                => /\ outcome' = "nobid" /\ apc' = "done"
                   /\ budgetDaily' = budgetDaily /\ budgetTotal' = budgetTotal ]_vars

\* an auction whose winner's debit was refused has answered no-bid
C21_Witness ==
    /\ apc = "done" /\ outcome = "nobid"
    /\ ranked # <<>>
    /\ lastDebit.turn = 1 /\ ~lastDebit.allowed
    /\ lastDebit.c = ranked[1].c /\ lastDebit.amount = finalPrice

(***************************************************************************)
(* SetBudgets against concurrent debits                                    *)
(***************************************************************************)
\* C22: SetBudgets(c, daily, total) is one unit for the debits on c: no debit
\* is evaluated between its two writes, against the daily counter it has set
\* and a total counter it has not.
C22_SetBudgetsAtomic ==
    [][(DebitStep /\ SetInFlight(lastDebit'.c))
          => budgetTotal[lastDebit'.c] = Key(setter.total)]_vars

(***************************************************************************)
(* Debits racing for one campaign's budget                                 *)
(***************************************************************************)
Min(a, b) == IF a < b THEN a ELSE b

RaceDone == {k \in RaceCallers : racers[k].pc = "done"}
Committers == {k \in RaceDone : racers[k].allowed}
SameAmount == \A j, k \in RaceCallers : racers[j].amount = racers[k].amount

\* what the two counters of the raced campaign allowed at the start
RaceRemaining == Min(hist[RaceCampaign].daily, hist[RaceCampaign].total)

\* C23: debits on one campaign take effect one at a time.  A debit of exactly
\* the remaining daily budget (the total counter allowing it) commits and
\* leaves 0, and a debit of a positive amount against a daily counter of 0 is
\* refused; of k callers that have debited the same amount from a remaining
\* budget r, the counters still in place, exactly min(k, floor(r / amount))
\* have committed.
C23_DebitsLinearizable ==
    /\ [](( SameAmount /\ budgetDaily[RaceCampaign].present ) =>
            Cardinality(Committers) =
                Min(Cardinality(RaceDone), RaceRemaining \div racers[1].amount))
    /\ [][ DebitStep =>
             LET c == lastDebit'.c
                 a == lastDebit'.amount
             IN  /\ ( /\ a > 0 /\ budgetDaily[c] = Key(a)
                      /\ budgetTotal[c].present /\ budgetTotal[c].val >= a )
                       => (lastDebit'.allowed /\ budgetDaily'[c] = Key(0))
                 /\ (a > 0 /\ budgetDaily[c] = Key(0)) => ~lastDebit'.allowed ]_vars

\* three callers raced for a remaining budget of two amounts: two committed, the
\* third, which found the daily counter at 0, was refused
C23_Witness ==
    /\ RaceDone = RaceCallers /\ SameAmount
    /\ RaceRemaining = 2 * racers[1].amount
    /\ Cardinality(Committers) = 2
    /\ budgetDaily[RaceCampaign] = Key(0)
    /\ ~lastDebit.allowed

(***************************************************************************)
(* Auction: a committed debit stays                                        *)
(***************************************************************************)
AuctionCommitted == apc \in {"responding", "done"} /\ lastDebit.allowed

\* C24: once the winner's debit has committed, no later step of the auction -
\* the deadline passing, the result's cache write or a publish failing - gives
\* any of it back: neither counter of the winner increases, and both stay at
\* what they were less the cleared price.
C24_CommittedDebitStays ==
    /\ [](AuctionCommitted =>
            LET w == ranked[1].c IN
            /\ budgetDaily[w] = Key(hist[w].baseDaily - finalPrice)
            /\ budgetTotal[w] = Key(hist[w].total - finalPrice))
    /\ [][AuctionCommitted =>
            LET w == ranked[1].c IN
            /\ budgetDaily'[w].val <= budgetDaily[w].val
            /\ budgetTotal'[w].val <= budgetTotal[w].val]_vars

\* the deadline passed after the commit and the result was not published: the
\* response went out and the counters keep the debit
C24_Witness ==
    /\ apc = "done" /\ outcome = "bid"
    /\ deadlineFired
    /\ topics = <<"bid-requests", "bid-responses">>
    /\ finalPrice > 0
    /\ budgetDaily[ranked[1].c] = Key(hist[ranked[1].c].baseDaily - finalPrice)

(***************************************************************************)
(* Tracking: the life of an event                                          *)
(***************************************************************************)
Queued   == Ids(eventBuffer)
Batched  == Ids(batch)
EventIds == 1..MaxEvents

\* where the events are: each waits in one place at most, once, and a written
\* event waits nowhere
OnePlace ==
    /\ Queued \cap Batched = {}
    /\ (Queued \cup Batched) \cap persisted = {}
    /\ Cardinality(Queued) = Len(eventBuffer)
    /\ Cardinality(Batched) = Len(batch)
    /\ \A id \in Queued \cup Batched \cup persisted : id < nextId

\* the stages of the call in progress, in order
StagesInOrder ==
    /\ call.counted => (call.pc \notin {"idle", "validate", "debit"} /\ ~FailsValidation(call))
    /\ (call.queued \/ call.inlined) => call.counted
    /\ ~(call.queued /\ call.inlined)
    /\ call.id \in Queued \cup Batched \cup persisted => (call.queued \/ call.inlined)
    /\ call.inlined => call.id \in persisted

\* a row is written from the buffer by a worker, from the batch by the batch
\* processor, or by the call that found the buffer full
WrittenFromOnePlace ==
    \A id \in persisted' \ persisted :
        \/ id \in Queued /\ id \notin Queued' \cup Batched'
        \/ id \in Batched /\ id \notin Queued' \cup Batched'
        \/ id = call.id /\ call'.inlined /\ ~call'.queued

EnqueueAttempt == call.pc = "enqueue" /\ call'.pc # "enqueue"

\* C26: a Track call at its enqueue attempt can always go on (it never waits
\* for room in the buffer); when the buffer is full at that attempt the call
\* writes the event itself and the event is not put in the buffer; and the
\* buffer never holds more events than its capacity.
C26_FullBufferWritesInline ==
    /\ [](Len(eventBuffer) <= BufferSize)
    /\ []((Alive /\ call.pc = "enqueue") => ENABLED (TrackEnqueue \/ TrackInlineFails))
    /\ [][(EnqueueAttempt /\ ~bufferClosed /\ Len(eventBuffer) >= BufferSize) =>
             /\ call'.inlined /\ ~call'.queued
             /\ eventBuffer' = eventBuffer
             /\ call.id \notin Ids(eventBuffer') \cup Ids(batch')
             /\ call'.result # "error" => call.id \in persisted']_vars

\* a call found the buffer full and wrote its event itself
C26_Witness ==
    /\ call.pc = "returned" /\ call.result = "ok"
    /\ call.inlined /\ ~call.queued
    /\ Len(eventBuffer) = BufferSize
    /\ call.id \in persisted
    /\ call.id \notin Ids(eventBuffer) \cup Ids(batch)

(***************************************************************************)
(* The daily reset                                                         *)
(***************************************************************************)
StatusActive(c) == c \in created /\ rows[c].Status = "active"

\* the campaigns a reset has taken up for a rewrite of their counters
TakenUp(o) == o.todo \cup (IF o.pc = "set_daily" THEN {o.c} ELSE {})

\* C27: ResetDailyBudgets zeroes spent_daily on every campaign of status active
\* and on no other, and takes up every campaign of status active, and no other,
\* for a rewrite of its counters to (budget_daily, budget_total - spent_total).
C27_ResetCoversActive ==
    [][ /\ (Idle /\ op'.pc = "reset_list") =>
              \A c \in Campaigns :
                  rows'[c] = IF StatusActive(c) THEN [rows[c] EXCEPT !.SpentDaily = 0]
                             ELSE rows[c]
        /\ (op.pc = "reset_list" /\ op'.pc # "reset_list") =>
              TakenUp(op') = {c \in Campaigns : StatusActive(c)}
        /\ (op'.kind = "reset" /\ op'.pc = "set_daily" /\ op.pc # "set_daily") =>
              /\ op'.daily = rows[op'.c].BudgetDaily
              /\ op'.total = rows[op'.c].BudgetTotal - rows[op'.c].SpentTotal ]_vars

(***************************************************************************)
(* The frequency cap at eligibility                                        *)
(***************************************************************************)
CapOf(rule, eventType) ==
    IF eventType = "impression" THEN rule.ImpressionCap ELSE rule.ClickCap

\* the impressions counted for the user on c have reached c's impression cap
CapReached(c) ==
    /\ rows[c].FrequencyCapping.present
    /\ rows[c].FrequencyCapping.ImpressionCap > 0
    /\ GetFrequencyCount(freqKey[c]["impression"]) >= rows[c].FrequencyCapping.ImpressionCap

\* the frequency step of c's eligibility task has been taken
FrequencyChecked(c) == task[c] = "frequency" /\ task'[c] # "frequency"

IncrStep(c, e) ==
    /\ freqPipe.pc = "idle" /\ freqPipe'.pc = "incremented"
    /\ freqPipe'.c = c /\ freqPipe'.event = e

\* the EXPIRE of the call on (c, e), after which it returns freqPipe.count
ExpireStep(c, e) ==
    /\ freqPipe.pc = "incremented" /\ freqPipe'.pc = "idle"
    /\ freqPipe.c = c /\ freqPipe.event = e

\* C29: an IncrementFrequencyCap call adds one to the counter of (event type,
\* campaign, user), a missing or expired key counting as 0, so that the first
\* increment after an expiry gives 1; it sets the key's expiration to the
\* rule's window from now and returns the count after its increment; a key
\* is gone once its expiration has come, and GetFrequencyCount reads a
\* missing key as 0.
C29_IncrementArmsWindow ==
    /\ [][\A c \in Campaigns, e \in EventTypes :
             /\ IncrStep(c, e) =>
                   /\ freqKey'[c][e].present
                   /\ freqKey'[c][e].val = GetFrequencyCount(freqKey[c][e]) + 1
                   /\ freqPipe'.count = freqKey'[c][e].val
                   /\ ~freqKey[c][e].present => freqPipe'.count = 1
             /\ (ExpireStep(c, e) /\ freqKey[c][e].present) =>
                   freqKey'[c][e] =
                       [present |-> TRUE, val |-> freqPipe.count, ttl |-> TRUE,
                        expireAt |-> now + rows[c].FrequencyCapping.TimeWindow]]_vars
    /\ [](\A c \in Campaigns, e \in EventTypes :
             /\ ~freqKey[c][e].present => GetFrequencyCount(freqKey[c][e]) = 0
             /\ (freqKey[c][e].present /\ freqKey[c][e].ttl) =>
                   /\ freqKey[c][e].expireAt > now
                   /\ freqKey[c][e].expireAt <= now + rows[c].FrequencyCapping.TimeWindow)

\* the key expired, and the increment after that left a counter of 1 with a
\* full window ahead of it
C29_Witness ==
    /\ expired["c1"]["impression"] >= 1
    /\ freqPipe.pc = "idle"
    /\ freqKey["c1"]["impression"] =
           [present |-> TRUE, val |-> 1, ttl |-> TRUE,
            expireAt |-> now + rows["c1"].FrequencyCapping.TimeWindow]

(***************************************************************************)
(* Targeting                                                               *)
(***************************************************************************)
\* the targeting step of c's eligibility task lets the campaign through
TargetingPassed(c) == task[c] = "targeting" /\ task'[c] \in {"frequency", "pacing"}

TargetingDropped(c) == task[c] = "targeting" /\ task'[c] = "dropped"

\* the request's country is in the campaign's geo set, if the set has members
GeoMatches(c) ==
    rows[c].TargetingRules.GeoTargeting # {} =>
        /\ request.Geo.present
        /\ request.Geo.Country \in rows[c].TargetingRules.GeoTargeting

\* the request's device type, as a string, is in the campaign's device set
DeviceMatches(c) ==
    rows[c].TargetingRules.DeviceTypes # {} =>
        ToString(request.DeviceType) \in rows[c].TargetingRules.DeviceTypes

DayMatches(c) ==
    rows[c].TargetingRules.DayParting # {} =>
        \E rule \in rows[c].TargetingRules.DayParting :
            /\ rule.DayOfWeek = wall.weekday
            /\ wall.hour >= rule.StartHour /\ wall.hour < rule.EndHour

\* C30: for every request, with or without a geo descriptor, a campaign passes
\* targeting only if the request's country is in its non-empty geo set and the
\* request's stringified device type is in its non-empty device set; a
\* campaign is dropped at targeting only when one of its rules fails, so no
\* rules or empty sets let it through.
C30_TargetingBySets ==
    [][\A c \in Campaigns :
          /\ TargetingPassed(c) => GeoMatches(c) /\ DeviceMatches(c)
          /\ TargetingDropped(c) =>
                ~(GeoMatches(c) /\ DeviceMatches(c) /\ DayMatches(c))]_vars

(***************************************************************************)
(* Day parting                                                             *)
(***************************************************************************)
\* the day-part entry matches the auction's day and hour, the end hour excluded
EntryMatches(entry) ==
    /\ entry.DayOfWeek = wall.weekday
    /\ entry.StartHour <= wall.hour /\ wall.hour < entry.EndHour

Monday9to17 == [DayOfWeek |-> 1, StartHour |-> 9, EndHour |-> 17]

DeviceFactor == IF request.DeviceType = 1 THEN 12 ELSE 10

SiteFactor == IF request.SiteCat THEN 11 ELSE 10

\* the entries of the auction: on the bid channel, or collected and ranked
BidEntries ==
    {bidChan[i] : i \in 1..Len(bidChan)} \cup {ranked[i] : i \in 1..Len(ranked)}

\* C32: every bid entry of an auction is priced at the campaign's base bid
\* times 1.2 for device type 1 times 1.1 for a site with categories, and that
\* price is at least the request's floor; a campaign whose price is below the
\* floor has no entry.
C32_PriceIsBaseTimesMultipliers ==
    /\ \A entry \in BidEntries :
          /\ entry.Price * 100 = rows[entry.c].BidAmount * DeviceFactor * SiteFactor
          /\ entry.Price >= request.Imp[1].BidFloor
    /\ \A c \in Campaigns :
          rows[c].BidAmount * DeviceFactor * SiteFactor < request.Imp[1].BidFloor * 100 =>
              /\ task[c] # "done"
              /\ \A entry \in BidEntries : entry.c # c

\* both multipliers apply: a base bid of 1.00 enters at 1.32 over a floor of
\* 1.25, which 1.20 or 1.10 alone would not reach
C32_Witness ==
    /\ request.DeviceType = 1 /\ request.SiteCat
    /\ request.Imp[1].BidFloor = 125 * Penny
    /\ rows["c1"].BidAmount = 100 * Penny
    /\ \E i \in 1..Len(ranked) :
          ranked[i].c = "c1" /\ ranked[i].Price = 132 * Penny

(***************************************************************************)
(* Auction: the order of the steps                                         *)
(***************************************************************************)
\* a budget counter or the record of the last debit call changes
DebitIssued ==
    budgetDaily' # budgetDaily \/ budgetTotal' # budgetTotal \/ lastDebit' # lastDebit

ResultOrResponseOut ==
    \E i \in 1..Len(topics) : topics[i] \in {"auction-results", "bid-responses"}

\* C33: the bid request is published before the campaigns are listed; the one
\* debit of an auction is issued after the ranking and the price are settled,
\* on the winner and for the cleared price; the auction result and the bid
\* response go out, in that order, only after that debit was allowed, and the
\* price they carry is the amount debited.
C33_StepsInOrder ==
    /\ [](apc # "idle" => Len(topics) >= 1 /\ topics[1] = "bid-requests")
    /\ [][apc' = "listing" => apc \in {"idle", "listing"}]_vars
    /\ [][apc' = "committing" => apc \in {"collecting", "committing"}]_vars
    /\ [][DebitIssued =>
             /\ apc = "committing" /\ apc' \in {"responding", "done"}
             /\ ranked # <<>>
             /\ finalPrice = determineFinalPrice(ranked[1].Price, secondPrice, request.Imp[1].BidFloor)
             /\ lastDebit'.c = ranked[1].c /\ lastDebit'.amount = finalPrice]_vars
    /\ [](ResultOrResponseOut =>
             /\ apc = "done" /\ outcome = "bid"
             /\ lastDebit.c = ranked[1].c /\ lastDebit.amount = finalPrice
             /\ lastDebit.allowed
             /\ hist[ranked[1].c].debited = finalPrice
             /\ \A c \in Campaigns \ {ranked[1].c} : hist[c].debited = 0)
    /\ [](\A i \in 1..Len(topics), j \in 1..Len(topics) :
             (topics[i] = "auction-results" /\ topics[j] = "bid-responses") => i < j)

\* the whole pipeline ran: request published, winner debited, result and
\* response published
C33_Witness ==
    /\ apc = "done" /\ outcome = "bid"
    /\ topics = <<"bid-requests", "auction-results", "bid-responses">>
    /\ lastDebit.allowed /\ lastDebit.amount = finalPrice /\ finalPrice > 0
    /\ Len(ranked) = 2

(***************************************************************************)
(* Update: what it writes                                                  *)
(***************************************************************************)
\* a step of the UpdateCampaign call in progress or starting
UpdateActs == op' # op /\ op'.kind = "updated"

\* the UPDATE of an UpdateCampaign call succeeds
UpdateWritten == UpdateActs /\ op'.pc = "set_daily" /\ op.pc # "set_daily"

\* the UPDATE of an UpdateCampaign call fails
UpdateRefused == UpdateActs /\ op'.result = "error"

ResetCompletes == op.kind = "reset" /\ op.pc # "returned" /\ op'.pc = "returned"

\* C35: when ResetDailyBudgets completes, the total counter of every active
\* campaign is its total budget less all the debits committed on it so far,
\* whether or not their durable spend updates have been written.
C35_ResetKeepsCommittedSpend ==
    [][ResetCompletes =>
          \A c \in created :
              rows'[c].Status = "active" =>
                  /\ budgetTotal'[c].present
                  /\ budgetTotal'[c].val = rows'[c].BudgetTotal - debited'[c]]_vars

(***************************************************************************)
(* Track beside Stop                                                       *)
(***************************************************************************)
\* the Track call in progress takes the step of its select
SelectStep == call.pc = "enqueue" /\ call'.pc # "enqueue"

\* C36: no Track call reaches its send with the buffer closed, and none ends
\* in a send on the closed buffer: a call that meets Stop is enqueued,
\* written inline or rejected.
C36_NoSendAfterClose ==
    /\ [][SelectStep => ~bufferClosed]_vars
    /\ [](call.result # "panic")

(***************************************************************************)
(* The batch writer after Stop                                             *)
(***************************************************************************)
\* C37: the batch of batchProcessor holds only events a Track call enqueued,
\* never the nil a closed buffer yields, and at most the flush limit of them;
\* processBatch is never given a nil event.
C37_BatchHoldsOnlyEnqueued ==
    /\ [](\A i \in 1..Len(batch) : batch[i] # NilEvent /\ batch[i].id \in 1..MaxEvents)
    /\ [](Len(batch) <= BatchLimit)
    /\ [][batch' # batch /\ batch' # <<>> =>
             eventBuffer # <<>> /\ batch' = Append(batch, Head(eventBuffer))]_vars
    /\ [](mainPc # "crashed")

\* C38: an auction on a bid request whose impression list is empty never
\* reads the first impression slot: with a campaign that passed targeting,
\* frequency and pacing, no eligibility task and no price resolution fails
\* out of range, and the auction ends with a bid or a no-bid.
C38_EmptyImpressionListIsSafe ==
    request.Imp = <<>> =>
        /\ \A c \in Campaigns : task[c] # "panic"
        /\ apc # "crashed"
        /\ apc = "done" => outcome \in {"bid", "nobid", "error"}

\* a call of CheckAndDecrementBudget on campaign c answers in this step
DebitAnswers(c) == lastDebit'.turn # lastDebit.turn /\ lastDebit'.c = c

\* C39: a debit on a campaign whose daily or total counter is absent (never
\* set, or the daily counter expired) is refused and creates or changes no
\* counter; an absent daily counter comes back only through the SET of
\* SetCampaignBudget, so from its expiry until then every debit is refused.
C39_AbsentCounterRefuses ==
    [][\A c \in Campaigns :
          /\ (DebitAnswers(c) /\ (~budgetDaily[c].present \/ ~budgetTotal[c].present)) =>
                /\ ~lastDebit'.allowed
                /\ budgetDaily' = budgetDaily
                /\ budgetTotal' = budgetTotal
                /\ dbPending' = dbPending
          /\ (~budgetDaily[c].present /\ budgetDaily'[c].present) =>
                (setter'.pc = "daily_set" /\ setter'.c = c)]_vars

\* the daily counter of c1 was set to a penny or more and has expired, the
\* total counter holds a penny or more, and a debit of a penny was refused
C39_Witness ==
    /\ hist["c1"].set /\ hist["c1"].daily >= Penny
    /\ ~budgetDaily["c1"].present
    /\ budgetTotal["c1"].present /\ budgetTotal["c1"].val >= Penny
    /\ lastDebit.turn = 1 /\ lastDebit.c = "c1" /\ lastDebit.amount = Penny
    /\ ~lastDebit.allowed
    /\ hist["c1"].debited = 0

\* C40: GetWriter creates at most one writer per topic, and the writers map
\* is never read or written while another goroutine writes it, whatever the
\* number of goroutines that publish to a topic not seen before.
C40_OneWriterPerTopic ==
    /\ \A t \in Topics : producer.made[t] <= 1
    /\ ~producer.raced
    /\ ~producer.fatal
====
